---- MODULE Spec2Model ----
(***************************************************************************)
(* BudgetTracker (src/app.js): the month-accounting engine.                *)
(*                                                                         *)
(* Representation                                                          *)
(*   - an ISO date "YYYY-MM-DD" is the tuple <<y, m, d>>, a month          *)
(*     identifier "YYYY-MM" is the tuple <<y, m>>; years have four digits, *)
(*     so the string comparisons of the code are tuple comparisons;        *)
(*   - money is an integer number of mills (0.001 of the currency unit), so *)
(*     that an entered amount may have more decimals than the two that     *)
(*     toFixed(2) keeps; an annual rate is a whole number of percent;      *)
(*     products and quotients are exact rationals;                         *)
(*   - a Firestore collection is a function from document ids to records;  *)
(*   - Date.now() stamps (createdAt, updatedAt) and display labels (name,  *)
(*     group, category, memo, notes) are not stored; the log collections   *)
(*     maintenanceLogs and mileageLogs, which no handler reads back into   *)
(*     the other collections, are not stored either;                       *)
(*   - a handler runs to completion before the next one starts, except in  *)
(*     the sections on interleaved and failing calls, where a call is      *)
(*     split at its await points and kept in `calls` while in flight.      *)
(***************************************************************************)
EXTENDS Integers, FiniteSets, Sequences, TLC

VARIABLES
    args,                \* input of the pure function applied
    result,              \* its output ("none" before the call)
    calls,               \* the asynchronous calls in flight, by call number
    cutoffDay,           \* settings.cutoffDay (memory and settings/main agree)
    currentMonthYM,      \* currentMonthYM
    recurring,           \* recurring rules (recCol and its cache)
    bills,               \* bills (billsCol and its cache)
    debtDocs,            \* debtsCol
    debts,               \* the in-memory cache `debts`
    prevBalance,         \* per debt, the currentBalance stored before the last write
    payments,            \* per (debt, month), the payments that reduced the balance
    fundDocs,            \* fundsCol
    funds,               \* the in-memory cache `funds`
    vehicleDocs,         \* vehiclesCol
    vehicles,            \* the in-memory cache `vehicles`
    vehicleMaintenance,  \* vehicleMaintCol and its cache: the (vehicle, item) configs
    tx,                  \* txCol
    currentTransactions, \* ids of the rows of the transaction table
    nextId,              \* the next id addDoc generates, per collection
    lastOp               \* the last operation run, with what it wrote

pureVars   == <<args, result, calls>>
setVars    == <<cutoffDay, currentMonthYM>>
ruleVars   == <<recurring, bills>>
debtVars   == <<debtDocs, debts, prevBalance, payments>>
fundVars   == <<fundDocs, funds>>
vehVars    == <<vehicleDocs, vehicles, vehicleMaintenance>>
txVars     == <<tx, currentTransactions, nextId>>
ledgerVars == <<setVars, ruleVars, debtVars, fundVars, vehVars, txVars, lastOp>>
vars       == <<pureVars, ledgerVars>>

(***************************************************************************)
(* Bounds and program constants                                            *)
(***************************************************************************)
BaseYear == 2024
YearSpan == 1
DefaultCutoffDay == 25
MinDay == 1
MaxDay == 28
MaxRun == 2
MaxRecurring == 1
MaxBills == 1
MaxAutoTx == 2
MaxTxDocs == 3
MaxDebts == 1
MaxPayments == 2
MaxFunds == 1
MaxSaved == 200000
MaxSavingsInRow == 3
MaxVehicles == 1
MaxEntities == 1

None == "none"
Null == <<>>

\* a value handed to Number.parseInt: Num(n) for numeric text, NaN otherwise
Num(n) == <<n>>
NaN == <<>>

Years == BaseYear .. (BaseYear + YearSpan)

Max(a, b) == IF a >= b THEN a ELSE b
Min(a, b) == IF a <= b THEN a ELSE b

(***************************************************************************)
(* 0) Utilities: date helpers                                              *)
(***************************************************************************)
DaysInMonth(y, m) ==
    IF m \in {4, 6, 9, 11} THEN 30
    ELSE IF m # 2 THEN 31
    ELSE IF (y % 4 = 0 /\ y % 100 # 0) \/ y % 400 = 0 THEN 29 ELSE 28

\* every calendar date of the modelled years
CalendarDates ==
    {dt \in Years \X (1..12) \X (1..31) : dt[3] <= DaysInMonth(dt[1], dt[2])}

clampInt(v, min, max, fallback) ==
    IF v = NaN THEN fallback ELSE Max(min, Min(max, v[1]))

\* toYM(d) of a Date with year y and 0-based month index mi
toYM(y, mi) == <<y, mi + 1>>

\* new Date(y, m - 1, 1); d.setMonth(d.getMonth() + add); toYM(d):
\* setMonth carries a month index outside 0..11 into the year
addMonthsYM(ym, add) ==
    LET total == ym[1] * 12 + (ym[2] - 1) + add
    IN  toYM(total \div 12, total % 12)

dateFromYMDay(ym, day) == <<ym[1], ym[2], clampInt(Num(day), MinDay, MaxDay, 1)>>

monthsBetweenYM(a, b) == (b[1] - a[1]) * 12 + (b[2] - a[2])

\* a < b on "YYYY-MM" strings
YMLess(a, b) == a[1] < b[1] \/ (a[1] = b[1] /\ a[2] < b[2])

\* startYM = None models the empty string, endYM = None models null
ymInRange(ym, startYM, endYM) ==
    IF startYM # None /\ YMLess(ym, startYM) THEN FALSE
    ELSE IF endYM # None /\ YMLess(endYM, ym) THEN FALSE
    ELSE TRUE

computeEffectiveMonthStrict(dateISO, cutoff) ==
    LET ym == toYM(dateISO[1], dateISO[2] - 1)
    IN  IF dateISO[3] > cutoff THEN addMonthsYM(ym, 1) ELSE ym

computeEffectiveMonth(dateISO, cutoff) ==
    LET ym == toYM(dateISO[1], dateISO[2] - 1)
    IN  IF dateISO[3] >= cutoff THEN addMonthsYM(ym, 1) ELSE ym

(***************************************************************************)
(* Documents and collections                                               *)
(***************************************************************************)
EmptyDocs == <<>>

Has(d, f) == f \in DOMAIN d

Put(col, id, d) == [i \in DOMAIN col \cup {id} |-> IF i = id THEN d ELSE col[i]]

\* deleteDoc
Remove(col, id) == [i \in DOMAIN col \ {id} |-> col[i]]

\* the fields of data replace those of old, the other fields of old stay
MergeFields(old, data) ==
    [f \in DOMAIN old \cup DOMAIN data |-> IF f \in DOMAIN data THEN data[f] ELSE old[f]]

\* setDoc(ref, data, { merge: true })
setDocMerge(col, id, data) ==
    Put(col, id, IF id \in DOMAIN col THEN MergeFields(col[id], data) ELSE data)

\* updateDoc(ref, data): rejected when the document does not exist
updateDoc(col, id, data) ==
    IF id \in DOMAIN col THEN Put(col, id, MergeFields(col[id], data)) ELSE col

(***************************************************************************)
(* Deterministic ids of generated transactions; addDoc ids are <<"auto",n>>*)
(***************************************************************************)
\* an id that depends on what is stored, as an addDoc id would
recurringTxDocIdFresh(recurringId, dateISO) ==
    <<"rec", recurringId, <<Cardinality(DOMAIN tx)>>>>

recurringTxDocId(recurringId, dateISO) == <<"rec", recurringId, dateISO>>
billTxDocId(billId, dateISO) == <<"bill", billId, dateISO>>
debtPayTxDocId(debtId, ym) == <<"debtpay", debtId, ym>>
fundContribTxDocIdPerCall(fundId, ym, dateISO) ==
    <<"fund", fundId, <<ym, dateISO, Cardinality(DOMAIN tx)>>>>

fundContribTxDocId(fundId, ym, dateISO) == <<"fund", fundId, <<ym, dateISO>>>>
autoTxDocId(n) == <<"auto", n, <<>>>>

(***************************************************************************)
(* 11) Recurring, 12) Bills: materialization                               *)
(***************************************************************************)
\* without the test of the month range
RecurringEligibleActiveOnly(rules, ym) ==
    {r \in DOMAIN rules : rules[r].active /\ rules[r].startMonth # None}

RecurringEligible(rules, ym) ==
    {r \in DOMAIN rules :
        /\ rules[r].active
        /\ rules[r].startMonth # None
        /\ ymInRange(ym, rules[r].startMonth, rules[r].endMonth)}

RecurringTxData(r, rule, ym, cutoff) ==
    LET dateISO == dateFromYMDay(ym, rule.dayOfMonth)
    IN  [date |-> dateISO, type |-> rule.type, category |-> rule.category,
         amount |-> rule.amount,
         effectiveMonth |-> computeEffectiveMonth(dateISO, cutoff),
         isRecurring |-> TRUE, recurringId |-> r, sourceMonth |-> ym]

\* an ensure that creates the missing transactions and leaves the stored
\* ones as they are
ensureRecurringForMonthMissingOnly(txs, rules, ym, cutoff) ==
    LET elig == RecurringEligible(rules, ym)
        idOf(r) == recurringTxDocId(r, dateFromYMDay(ym, rules[r].dayOfMonth))
        W == {idOf(r) : r \in elig}
        src(id) == CHOOSE r \in elig : idOf(r) = id
    IN  [id \in DOMAIN txs \cup W |->
            IF id \in DOMAIN txs
            THEN txs[id]
            ELSE RecurringTxData(src(id), rules[src(id)], ym, cutoff)]

\* the upserts are to distinct documents, one per eligible rule
ensureRecurringForMonth(txs, rules, ym, cutoff) ==
    LET elig == RecurringEligible(rules, ym)
        idOf(r) == recurringTxDocId(r, dateFromYMDay(ym, rules[r].dayOfMonth))
        W == {idOf(r) : r \in elig}
        src(id) == CHOOSE r \in elig : idOf(r) = id
    IN  [id \in DOMAIN txs \cup W |->
            IF id \in W
            THEN LET data == RecurringTxData(src(id), rules[src(id)], ym, cutoff)
                 IN  IF id \in DOMAIN txs THEN MergeFields(txs[id], data) ELSE data
            ELSE txs[id]]

BillTxData(b, bill, ym, cutoff) ==
    LET dateISO == dateFromYMDay(ym, bill.dueDay)
    IN  [date |-> dateISO, type |-> "expense", category |-> bill.name,
         amount |-> bill.amount,
         effectiveMonth |-> computeEffectiveMonth(dateISO, cutoff),
         isBill |-> TRUE, billId |-> b, sourceMonth |-> ym]

ensureBillsForMonth(txs, bs, ym, cutoff) ==
    LET elig == {b \in DOMAIN bs : bs[b].active}
        idOf(b) == billTxDocId(b, dateFromYMDay(ym, bs[b].dueDay))
        W == {idOf(b) : b \in elig}
        src(id) == CHOOSE b \in elig : idOf(b) = id
    IN  [id \in DOMAIN txs \cup W |->
            IF id \in W
            THEN LET data == BillTxData(src(id), bs[src(id)], ym, cutoff)
                 IN  IF id \in DOMAIN txs THEN MergeFields(txs[id], data) ELSE data
            ELSE txs[id]]

\* 16) Auto-stuff
applyAutoStuffForMonth(txs, rules, bs, ym, cutoff) ==
    ensureBillsForMonth(ensureRecurringForMonth(txs, rules, ym, cutoff), bs, ym, cutoff)

\* query(txCol, where("effectiveMonth", "==", ym)): the ids of the rows
loadTransactionsForMonth(txs, ym) ==
    {id \in DOMAIN txs : Has(txs[id], "effectiveMonth") /\ txs[id].effectiveMonth = ym}

(***************************************************************************)
(* 23) Recompute effectiveMonth                                            *)
(***************************************************************************)
RecomputeUpdatesAll(txs, cutoff) ==
    {id \in DOMAIN txs : Has(txs[id], "date") /\ txs[id].date # None}

\* the documents recomputeAllTxEffectiveMonths updates
RecomputeUpdates(txs, cutoff) ==
    {id \in DOMAIN txs :
        /\ Has(txs[id], "date") /\ txs[id].date # None
        /\ \/ ~Has(txs[id], "effectiveMonth")
           \/ txs[id].effectiveMonth # computeEffectiveMonth(txs[id].date, cutoff)}

recomputeAllTxEffectiveMonths(txs, cutoff) ==
    [id \in DOMAIN txs |->
        IF id \in RecomputeUpdates(txs, cutoff)
        THEN MergeFields(txs[id],
                 [effectiveMonth |-> computeEffectiveMonth(txs[id].date, cutoff)])
        ELSE txs[id]]

(***************************************************************************)
(* The store before the first write, shared by every specification         *)
(***************************************************************************)
LedgerInit ==
    /\ calls = <<>>
    /\ cutoffDay = DefaultCutoffDay
    /\ currentMonthYM = <<BaseYear, 12>>
    /\ recurring = EmptyDocs
    /\ bills = EmptyDocs
    /\ debtDocs = EmptyDocs
    /\ debts = EmptyDocs
    /\ prevBalance = EmptyDocs
    /\ payments = EmptyDocs
    /\ fundDocs = EmptyDocs
    /\ funds = EmptyDocs
    /\ vehicleDocs = EmptyDocs
    /\ vehicles = EmptyDocs
    /\ vehicleMaintenance = EmptyDocs
    /\ tx = EmptyDocs
    /\ currentTransactions = {}
    /\ nextId = [recurring |-> 1, bills |-> 1, debts |-> 1, funds |-> 1,
                 vehicles |-> 1, vehicleMaintenance |-> 1, tx |-> 1]
    /\ lastOp = [op |-> None, ref |-> None, ym |-> None, writes |-> 0,
                 changed |-> FALSE, run |-> 0]

(***************************************************************************)
(* The operation just run. For the operations whose repetition matters:    *)
(* name and arguments, the number of writes its core function issued,      *)
(* whether the stores changed, and how many times in a row it ran (up to   *)
(* MaxRun); Other for the rest                                             *)
(***************************************************************************)
Other ==
    [op |-> "other", ref |-> None, ym |-> None, writes |-> 0, changed |-> FALSE,
     run |-> 0]

Ran(name, ref, ym, writes, changed) ==
    LET again == lastOp.op = name /\ lastOp.ref = ref /\ lastOp.ym = ym
    IN  [op |-> name, ref |-> ref, ym |-> ym, writes |-> writes, changed |-> changed,
         run |-> IF again THEN Min(lastOp.run + 1, MaxRun) ELSE 1]

\* a handler that returned at a validation, with the kind of its input
Rejected(what) ==
    [op |-> "rejected", ref |-> what, ym |-> None, writes |-> 0, changed |-> FALSE,
     run |-> 0]

\* the bound on the size of txCol
Fits(txs) == Cardinality(DOMAIN txs) <= MaxTxDocs

\* loadMonthData: the transaction table shows the active month
LoadMonthData(txs, ym) == currentTransactions' = loadTransactionsForMonth(txs, ym)

(***************************************************************************)
(* 8) Month picker + cutoff day                                            *)
(***************************************************************************)
MonthPickerChange(m) ==
    LET t1 == applyAutoStuffForMonth(tx, recurring, bills, m, cutoffDay)
    IN  /\ Fits(t1)
        /\ currentMonthYM' = m
        /\ tx' = t1
        /\ LoadMonthData(t1, m)
        /\ lastOp' = Other
        /\ UNCHANGED <<pureVars, cutoffDay, ruleVars, debtVars, fundVars, vehVars, nextId>>

CutoffDayChangeNoRecompute(raw) ==
    LET c  == clampInt(raw, MinDay, MaxDay, DefaultCutoffDay)
        t2 == applyAutoStuffForMonth(tx, recurring, bills, currentMonthYM, c)
    IN  /\ Fits(t2)
        /\ cutoffDay' = c
        /\ tx' = t2
        /\ LoadMonthData(t2, currentMonthYM)
        /\ lastOp' = Ran("cutoffDay", c, None, 0, t2 # tx)
        /\ UNCHANGED <<pureVars, currentMonthYM, ruleVars, debtVars, fundVars, vehVars, nextId>>

CutoffDayChange(raw) ==
    LET c  == clampInt(raw, MinDay, MaxDay, DefaultCutoffDay)
        t1 == recomputeAllTxEffectiveMonths(tx, c)
        t2 == applyAutoStuffForMonth(t1, recurring, bills, currentMonthYM, c)
    IN  /\ Fits(t2)
        /\ cutoffDay' = c
        /\ tx' = t2
        /\ LoadMonthData(t2, currentMonthYM)
        /\ lastOp' = Ran("cutoffDay", c, None, Cardinality(RecomputeUpdates(tx, c)),
                         t2 # tx)
        /\ UNCHANGED <<pureVars, currentMonthYM, ruleVars, debtVars, fundVars, vehVars, nextId>>

(***************************************************************************)
(* 11) Recurring: handlers                                                 *)
(***************************************************************************)
\* inp: [type, category, amount, day, startMonth, endMonth, active, labelled]; labelled
\* says that group and category are filled; an input without them or without
\* a start month is rejected before any write
AddRecurring(inp) ==
    /\ nextId.recurring <= MaxRecurring
    /\ IF ~inp.labelled \/ inp.startMonth = None
       THEN UNCHANGED <<recurring, tx, currentTransactions, nextId>>
       ELSE LET r  == nextId.recurring
                rs == Put(recurring, r,
                          [type |-> inp.type, category |-> inp.category,
                           amount |-> inp.amount,
                           dayOfMonth |-> clampInt(inp.day, MinDay, MaxDay, 1),
                           startMonth |-> inp.startMonth, endMonth |-> inp.endMonth,
                           active |-> inp.active])
                t1 == applyAutoStuffForMonth(tx, rs, bills, currentMonthYM, cutoffDay)
            IN  /\ Fits(t1)
                /\ recurring' = rs
                /\ nextId' = [nextId EXCEPT !.recurring = r + 1]
                /\ tx' = t1
                /\ LoadMonthData(t1, currentMonthYM)
    /\ lastOp' = IF ~inp.labelled \/ inp.startMonth = None THEN Rejected("recurring") ELSE Other
    /\ UNCHANGED <<pureVars, setVars, bills, debtVars, fundVars, vehVars>>

\* the r-active select of a row
SetRecurringActive(r, active) ==
    /\ r \in DOMAIN recurring
    /\ LET rs == updateDoc(recurring, r, [active |-> active])
           t1 == applyAutoStuffForMonth(tx, rs, bills, currentMonthYM, cutoffDay)
       IN  /\ Fits(t1)
           /\ recurring' = rs
           /\ tx' = t1
           /\ LoadMonthData(t1, currentMonthYM)
    /\ lastOp' = Other
    /\ UNCHANGED <<pureVars, setVars, bills, debtVars, fundVars, vehVars, nextId>>

DeleteRecurring(r) ==
    /\ r \in DOMAIN recurring
    /\ recurring' = Remove(recurring, r)
    /\ LoadMonthData(tx, currentMonthYM)
    /\ lastOp' = Other
    /\ UNCHANGED <<pureVars, setVars, bills, debtVars, fundVars, vehVars, tx, nextId>>

\* btnApplyRecurring
ApplyRecurring ==
    LET t1 == ensureRecurringForMonth(tx, recurring, currentMonthYM, cutoffDay)
    IN  /\ Fits(t1)
        /\ tx' = t1
        /\ LoadMonthData(t1, currentMonthYM)
        /\ lastOp' = Ran("applyRecurring", None, currentMonthYM,
                         Cardinality(RecurringEligible(recurring, currentMonthYM)),
                         t1 # tx)
        /\ UNCHANGED <<pureVars, setVars, ruleVars, debtVars, fundVars, vehVars, nextId>>

(***************************************************************************)
(* 12) Bills: handlers                                                     *)
(***************************************************************************)
BillInputRejectedNameOnly(inp) == ~inp.named

\* btnAddBill: the validation of the name and the amount entered
BillInputRejected(inp) == ~inp.named \/ inp.amount <= 0

\* inp: [named, name, amount, dueDay]; no name or a non-positive amount is rejected
AddBill(inp) ==
    /\ nextId.bills <= MaxBills
    /\ IF BillInputRejected(inp)
       THEN UNCHANGED <<bills, tx, currentTransactions, nextId>>
       ELSE LET b  == nextId.bills
                bs == Put(bills, b,
                          [name |-> inp.name, amount |-> inp.amount,
                           dueDay |-> clampInt(inp.dueDay, MinDay, MaxDay, 1),
                           active |-> TRUE])
                t1 == applyAutoStuffForMonth(tx, recurring, bs, currentMonthYM, cutoffDay)
            IN  /\ Fits(t1)
                /\ bills' = bs
                /\ nextId' = [nextId EXCEPT !.bills = b + 1]
                /\ tx' = t1
                /\ LoadMonthData(t1, currentMonthYM)
    /\ lastOp' = IF BillInputRejected(inp) THEN Rejected("bill") ELSE Other
    /\ UNCHANGED <<pureVars, setVars, recurring, debtVars, fundVars, vehVars>>

DeleteBill(b) ==
    /\ b \in DOMAIN bills
    /\ bills' = Remove(bills, b)
    /\ LoadMonthData(tx, currentMonthYM)
    /\ lastOp' = Other
    /\ UNCHANGED <<pureVars, setVars, recurring, debtVars, fundVars, vehVars, tx, nextId>>

\* btnApplyBills
ApplyBills ==
    LET t1 == ensureBillsForMonth(tx, bills, currentMonthYM, cutoffDay)
    IN  /\ Fits(t1)
        /\ tx' = t1
        /\ LoadMonthData(t1, currentMonthYM)
        /\ lastOp' = Other
        /\ UNCHANGED <<pureVars, setVars, ruleVars, debtVars, fundVars, vehVars, nextId>>

(***************************************************************************)
(* 18) Transactions: the rows of the transaction table                     *)
(***************************************************************************)
\* what t-save writes; inp: [date, type, category, amount]
TxRowData(inp, old) ==
    [date |-> inp.date, type |-> inp.type, category |-> inp.category,
     amount |-> inp.amount,
     effectiveMonth |-> computeEffectiveMonth(inp.date, cutoffDay)]

\* t-save on a row added by btnAddTx; a row without a date is rejected
SaveNewTx(inp) ==
    /\ nextId.tx <= MaxAutoTx
    /\ IF inp.date = None
       THEN UNCHANGED <<tx, currentTransactions, nextId>>
       ELSE LET id == autoTxDocId(nextId.tx)
                t1 == Put(tx, id, TxRowData(inp, None))
            IN  /\ Fits(t1)
                /\ tx' = t1
                /\ nextId' = [nextId EXCEPT !.tx = @ + 1]
                /\ LoadMonthData(t1, currentMonthYM)
    /\ lastOp' = IF inp.date = None THEN Rejected("tx") ELSE Other
    /\ UNCHANGED <<pureVars, setVars, ruleVars, debtVars, fundVars, vehVars>>

\* t-save on a row of a stored transaction
SaveTx(id, inp) ==
    /\ id \in currentTransactions
    /\ IF inp.date = None
       THEN UNCHANGED <<tx, currentTransactions>>
       ELSE LET t1 == updateDoc(tx, id, TxRowData(inp, tx[id]))
            IN  /\ tx' = t1
                /\ LoadMonthData(t1, currentMonthYM)
    /\ lastOp' = IF inp.date = None THEN Rejected("tx") ELSE Other
    /\ UNCHANGED <<pureVars, setVars, ruleVars, debtVars, fundVars, vehVars, nextId>>

\* t-del on a row of a stored transaction
DeleteTx(id) ==
    /\ id \in currentTransactions
    /\ tx' = Remove(tx, id)
    /\ LoadMonthData(tx', currentMonthYM)
    /\ lastOp' = Other
    /\ UNCHANGED <<pureVars, setVars, ruleVars, debtVars, fundVars, vehVars, nextId>>

(***************************************************************************)
(* 13) Debts                                                               *)
(***************************************************************************)
\* Number((n / d).toFixed(2)) of an amount of n / d mills: the nearest
\* multiple of 10 mills, halves away from zero
toFixed2(n, d) ==
    IF n >= 0 THEN 10 * ((n + 5 * d) \div (10 * d))
    ELSE -(10 * (((-n) + 5 * d) \div (10 * d)))

\* monthlyRate = (apr / 100) / 12 is apr over RateDen
RateDen == 100 * 12

loadDebts(docs) ==
    [d \in DOMAIN docs |->
        [apr |-> docs[d].apr,
         currentBalance |-> docs[d].currentBalance,
         monthlyPayment |-> docs[d].monthlyPayment,
         dueDay |-> clampInt(Num(docs[d].dueDay), MinDay, MaxDay, 1),
         active |-> docs[d].active,
         lastPaidMonth |-> IF Has(docs[d], "lastPaidMonth")
                           THEN docs[d].lastPaidMonth ELSE None]]

\* inp: [named, apr, balance, monthly, dueDay]
AddDebt(inp) ==
    /\ nextId.debts <= MaxDebts
    /\ IF ~inp.named \/ inp.balance <= 0 \/ inp.monthly <= 0
       THEN UNCHANGED <<debtVars, currentTransactions, nextId>>
       ELSE LET d == nextId.debts
            IN  /\ debtDocs' = Put(debtDocs, d,
                                   [apr |-> inp.apr, currentBalance |-> inp.balance,
                                    monthlyPayment |-> inp.monthly,
                                    dueDay |-> clampInt(inp.dueDay, MinDay, MaxDay, 1),
                                    active |-> TRUE])
                /\ debts' = loadDebts(debtDocs')
                /\ prevBalance' = Put(prevBalance, d, inp.balance)
                /\ UNCHANGED payments
                /\ nextId' = [nextId EXCEPT !.debts = d + 1]
                /\ LoadMonthData(tx, currentMonthYM)
    /\ lastOp' = IF ~inp.named \/ inp.balance <= 0 \/ inp.monthly <= 0 THEN Rejected("debt") ELSE Other
    /\ UNCHANGED <<pureVars, setVars, ruleVars, fundVars, vehVars, tx>>

\* existing.exists() for the payment of debt debtId in month ym
DebtPaymentRecordedNever(txs, debtId, ym) == FALSE

DebtPaymentRecorded(txs, debtId, ym) == debtPayTxDocId(debtId, ym) \in DOMAIN txs

\* interest = currentBalance * monthlyRate, as a number of mills over RateDen
DebtInterestYearly(debt) == debt.currentBalance * debt.apr * 12

DebtInterest(debt) == debt.currentBalance * debt.apr

\* principal = Math.max(0, payment - interest), over RateDen
DebtPrincipal(debt) == Max(0, debt.monthlyPayment * RateDen - DebtInterest(debt))

\* newBalance = Math.max(0, currentBalance - principal), over RateDen
DebtNewBalance(debt) == Max(0, debt.currentBalance * RateDen - DebtPrincipal(debt))

DebtPayTxData(debtId, debt, ym, cutoff) ==
    LET dateISO == dateFromYMDay(ym, debt.dueDay)
    IN  [date |-> dateISO, type |-> "expense", amount |-> debt.monthlyPayment,
         effectiveMonth |-> computeEffectiveMonth(dateISO, cutoff),
         isDebtPayment |-> TRUE, debtId |-> debtId, month |-> ym,
         interest |-> toFixed2(DebtInterest(debt), RateDen),
         principal |-> toFixed2(DebtPrincipal(debt), RateDen),
         balanceAfter |-> toFixed2(DebtNewBalance(debt), RateDen)]

\* the stores after recordDebtPaymentForMonth(debtId, ym), and its writes
recordDebtPaymentForMonth(txs, docs, cache, debtId, ym, cutoff) ==
    IF debtId \notin DOMAIN cache \/ DebtPaymentRecorded(txs, debtId, ym)
    THEN [tx |-> txs, debtDocs |-> docs, writes |-> 0]
    ELSE [tx |-> setDocMerge(txs, debtPayTxDocId(debtId, ym),
                             DebtPayTxData(debtId, cache[debtId], ym, cutoff)),
          debtDocs |-> updateDoc(docs, debtId,
                          [currentBalance |-> toFixed2(DebtNewBalance(cache[debtId]), RateDen),
                           lastPaidMonth |-> ym]),
          writes |-> 2]

\* the pay button of a row of the debts table
PayDebt(d) ==
    /\ d \in DOMAIN debts
    /\ LET ym   == currentMonthYM
           r    == recordDebtPaymentForMonth(tx, debtDocs, debts, d, ym, cutoffDay)
           t1   == applyAutoStuffForMonth(r.tx, recurring, bills, ym, cutoffDay)
           paid == r.writes > 0
           less == paid /\ r.debtDocs[d].currentBalance < debtDocs[d].currentBalance
           n    == IF <<d, ym>> \in DOMAIN payments THEN payments[<<d, ym>>] ELSE 0
       IN  /\ Fits(t1)
           /\ less => n < MaxPayments
           /\ debtDocs' = r.debtDocs
           /\ debts' = loadDebts(r.debtDocs)
           /\ prevBalance' = IF paid THEN Put(prevBalance, d, debtDocs[d].currentBalance)
                             ELSE prevBalance
           /\ payments' = IF less THEN Put(payments, <<d, ym>>, n + 1) ELSE payments
           /\ tx' = t1
           /\ LoadMonthData(t1, ym)
           /\ lastOp' = Ran("payDebt", d, ym, r.writes, t1 # tx \/ r.debtDocs # debtDocs)
    /\ UNCHANGED <<pureVars, setVars, ruleVars, fundVars, vehVars, nextId>>

DeleteDebt(d) ==
    /\ d \in DOMAIN debts
    /\ debtDocs' = Remove(debtDocs, d)
    /\ debts' = loadDebts(debtDocs')
    /\ prevBalance' = Remove(prevBalance, d)
    /\ UNCHANGED payments
    /\ LoadMonthData(tx, currentMonthYM)
    /\ lastOp' = Other
    /\ UNCHANGED <<pureVars, setVars, ruleVars, fundVars, vehVars, tx, nextId>>

(***************************************************************************)
(* 14) Funds                                                               *)
(***************************************************************************)
loadFunds(docs) ==
    [f \in DOMAIN docs |->
        [goalAmount |-> docs[f].goalAmount, targetMonth |-> docs[f].targetMonth,
         currentSaved |-> docs[f].currentSaved, active |-> docs[f].active]]

\* inp: [named, goal, target, saved]
AddFund(inp) ==
    /\ nextId.funds <= MaxFunds
    /\ IF ~inp.named \/ inp.goal <= 0 \/ inp.target = None
       THEN UNCHANGED <<fundVars, currentTransactions, nextId>>
       ELSE LET f == nextId.funds
            IN  /\ fundDocs' = Put(fundDocs, f,
                                   [goalAmount |-> inp.goal, targetMonth |-> inp.target,
                                    currentSaved |-> inp.saved, active |-> TRUE])
                /\ funds' = loadFunds(fundDocs')
                /\ nextId' = [nextId EXCEPT !.funds = f + 1]
                /\ LoadMonthData(tx, currentMonthYM)
    /\ lastOp' = IF ~inp.named \/ inp.goal <= 0 \/ inp.target = None THEN Rejected("fund") ELSE Other
    /\ UNCHANGED <<pureVars, setVars, ruleVars, debtVars, vehVars, tx>>

FundContribTxData(fundId, amount, ym, dateISO, cutoff) ==
    [date |-> dateISO, type |-> "expense", amount |-> amount,
     effectiveMonth |-> computeEffectiveMonth(dateISO, cutoff),
     isFundContribution |-> TRUE, fundId |-> fundId, month |-> ym]

\* the stores after addFundContribution(fundId, amount, ym) run on day today
addFundContribution(txs, docs, cache, fundId, amount, ym, today, cutoff) ==
    IF fundId \notin DOMAIN cache
    THEN [tx |-> txs, fundDocs |-> docs]
    ELSE [tx |-> setDocMerge(txs, fundContribTxDocId(fundId, ym, today),
                             FundContribTxData(fundId, amount, ym, today, cutoff)),
          fundDocs |-> updateDoc(docs, fundId,
                          [currentSaved |-> toFixed2(cache[fundId].currentSaved + amount, 1)])]

\* the record of a contribution of amt to fund f on day today: the fund, the
\* day, the currentSaved stored before the first of the contributions made
\* in a row to this fund for this month on this day, their sum, the last
\* amount, and whether that starting value and all amounts had two decimals
SavingRan(f, amt, today) ==
    LET again == /\ lastOp.op = "addSaving"
                 /\ lastOp.ref[1] = f
                 /\ lastOp.ref[2] = today
                 /\ lastOp.ym = currentMonthYM
        base  == IF again THEN lastOp.ref[3] ELSE fundDocs[f].currentSaved
        sum   == IF again THEN lastOp.ref[4] ELSE 0
        cents == IF again THEN lastOp.ref[6] ELSE base % 10 = 0
    IN  [op |-> "addSaving",
         ref |-> <<f, today, base, sum + amt, amt, cents /\ amt % 10 = 0>>,
         ym |-> currentMonthYM, writes |-> 2, changed |-> TRUE,
         run |-> IF again THEN lastOp.run + 1 ELSE 1]

\* the add button of a row of the funds table; amt is the amount entered
AddSaving(f, amt, today) ==
    /\ f \in DOMAIN funds
    /\ funds[f].currentSaved + amt <= MaxSaved
    /\ lastOp.op = "addSaving" => lastOp.run < MaxSavingsInRow
    /\ IF amt <= 0
       THEN /\ UNCHANGED <<fundVars, tx, currentTransactions>>
            /\ lastOp' = Rejected("saving")
       ELSE LET r == addFundContribution(tx, fundDocs, funds, f, amt, currentMonthYM,
                                         today, cutoffDay)
            IN  /\ Fits(r.tx)
                /\ tx' = r.tx
                /\ fundDocs' = r.fundDocs
                /\ funds' = loadFunds(r.fundDocs)
                /\ LoadMonthData(r.tx, currentMonthYM)
                /\ lastOp' = SavingRan(f, amt, today)
    /\ UNCHANGED <<pureVars, setVars, ruleVars, debtVars, vehVars, nextId>>

DeleteFund(f) ==
    /\ f \in DOMAIN funds
    /\ fundDocs' = Remove(fundDocs, f)
    /\ funds' = loadFunds(fundDocs')
    /\ LoadMonthData(tx, currentMonthYM)
    /\ lastOp' = Other
    /\ UNCHANGED <<pureVars, setVars, ruleVars, debtVars, vehVars, tx, nextId>>

(***************************************************************************)
(* 15) Vehicles                                                            *)
(***************************************************************************)
\* the codes of the maintenance items in the order of their names, and their
\* default intervals (two of the ten DEFAULT_MAINT_ITEMS)
MaintItems == <<"brake_fluid", "engine_oil">>

DefaultIntervalKm(code) == IF code = "engine_oil" THEN 10000 ELSE 0
DefaultIntervalMonths(code) == IF code = "engine_oil" THEN 6 ELSE 24

ConfigsOf(cfgs, v, code) ==
    {c \in DOMAIN cfgs : cfgs[c].vehicleId = v /\ cfgs[c].itemCode = code}

\* ensureVehicleMaintenanceDefaults(vehicle) from item i on; n is the next
\* id of vehicleMaintCol
RECURSIVE ensureVehicleMaintenanceDefaults(_, _, _, _)
ensureVehicleMaintenanceDefaults(cfgs, n, v, i) ==
    IF i > Len(MaintItems) THEN [cfgs |-> cfgs, next |-> n]
    ELSE IF ConfigsOf(cfgs, v, MaintItems[i]) # {}
    THEN ensureVehicleMaintenanceDefaults(cfgs, n, v, i + 1)
    ELSE ensureVehicleMaintenanceDefaults(
             Put(cfgs, n, [vehicleId |-> v, itemCode |-> MaintItems[i],
                           intervalKm |-> DefaultIntervalKm(MaintItems[i]),
                           intervalMonths |-> DefaultIntervalMonths(MaintItems[i]),
                           lastDoneMileage |-> Null, lastDoneDate |-> Null,
                           active |-> TRUE]),
             n + 1, v, i + 1)

\* the loop of loadVehicles over the vehicles vs
RECURSIVE ensureAllVehicles(_, _, _)
ensureAllVehicles(cfgs, n, vs) ==
    IF vs = {} THEN [cfgs |-> cfgs, next |-> n]
    ELSE LET v == CHOOSE x \in vs : \A y \in vs : x <= y
             r == ensureVehicleMaintenanceDefaults(cfgs, n, v, 1)
         IN  ensureAllVehicles(r.cfgs, r.next, vs \ {v})

\* the cache after loadVehicles
loadVehicles(docs) ==
    [v \in DOMAIN docs |->
        [currentMileage |-> docs[v].currentMileage, active |-> docs[v].active]]

\* loadVehicles: the cache and the configs it adds
LoadVehicles(docs, cfgs, n) ==
    LET r == ensureAllVehicles(cfgs, n, DOMAIN docs)
    IN  /\ vehicles' = loadVehicles(docs)
        /\ vehicleMaintenance' = r.cfgs
        /\ nextId' = [nextId EXCEPT !.vehicleMaintenance = r.next]

\* inp: [named, mileage]
AddVehicle(inp) ==
    /\ nextId.vehicles <= MaxVehicles
    /\ IF ~inp.named
       THEN UNCHANGED <<vehVars, currentTransactions, nextId>>
       ELSE LET v  == nextId.vehicles
                vd == Put(vehicleDocs, v, [currentMileage |-> inp.mileage, active |-> TRUE])
                r1 == ensureVehicleMaintenanceDefaults(vehicleMaintenance,
                          nextId.vehicleMaintenance, v, 1)
                r2 == ensureAllVehicles(r1.cfgs, r1.next, DOMAIN vd)
            IN  /\ vehicleDocs' = vd
                /\ vehicles' = loadVehicles(vd)
                /\ vehicleMaintenance' = r2.cfgs
                /\ nextId' = [nextId EXCEPT !.vehicles = v + 1,
                                            !.vehicleMaintenance = r2.next]
                /\ LoadMonthData(tx, currentMonthYM)
    /\ lastOp' = Other
    /\ UNCHANGED <<pureVars, setVars, ruleVars, debtVars, fundVars, tx>>

VehicleTxData(v, dateISO, cost, cutoff) ==
    [date |-> dateISO, type |-> "expense", amount |-> cost,
     effectiveMonth |-> computeEffectiveMonth(dateISO, cutoff),
     isVehicleExpense |-> TRUE, vehicleId |-> v]

\* addServiceLogPrompt: the mileage stored after a log with the mileage entered
MileageAfterServiceLog(current, mileage) == IF mileage > current THEN mileage ELSE current

\* btnLogMileage: the mileage stored after a monthly log
MileageAfterLogAny(current, mileage) == mileage

MileageAfterLog(current, mileage) == IF mileage < current THEN current ELSE mileage

\* the add (service) and acc (accessory) buttons of a row of the vehicles
\* table; inp: [date, mileage, cost, item], mileage = NaN for text that is no
\* number, item the maintenance item that the service type entered names, if
\* any; the log is stored with an empty itemCode and no config is updated.
\* lastOp.ref of a log is <<vehicle, mileage, date, item>>, with the date Null
\* and the item None where the log has none
AddServiceLog(v, inp) ==
    /\ v \in DOMAIN vehicles
    /\ nextId.tx <= MaxAutoTx
    /\ IF inp.mileage = NaN \/ inp.mileage[1] < 0 \/ inp.cost <= 0
       THEN /\ UNCHANGED <<vehicleDocs, tx>>
            /\ LoadVehicles(vehicleDocs, vehicleMaintenance, nextId.vehicleMaintenance)
            /\ LoadMonthData(tx, currentMonthYM)
            /\ lastOp' = Other
       ELSE LET m  == inp.mileage[1]
                vd == updateDoc(vehicleDocs, v,
                          [currentMileage |-> MileageAfterServiceLog(vehicles[v].currentMileage, m)])
                t1 == Put(tx, autoTxDocId(nextId.tx), VehicleTxData(v, inp.date, inp.cost, cutoffDay))
                r  == ensureAllVehicles(vehicleMaintenance, nextId.vehicleMaintenance, DOMAIN vd)
            IN  /\ Fits(t1)
                /\ vehicleDocs' = vd
                /\ vehicles' = loadVehicles(vd)
                /\ vehicleMaintenance' = r.cfgs
                /\ tx' = t1
                /\ nextId' = [nextId EXCEPT !.tx = @ + 1, !.vehicleMaintenance = r.next]
                /\ LoadMonthData(t1, currentMonthYM)
                /\ lastOp' = Ran("vehicleLog", <<v, m, inp.date, inp.item>>, None, 1,
                                 vd # vehicleDocs)
    /\ UNCHANGED <<pureVars, setVars, ruleVars, debtVars, fundVars>>

\* updateVehicleMaintLastDone: the first config of (vehicle, item), if any
updateVehicleMaintLastDone(cfgs, v, code, dateISO, mileage) ==
    LET found == ConfigsOf(cfgs, v, code)
    IN  IF found = {} THEN cfgs
        ELSE updateDoc(cfgs, CHOOSE c \in found : \A o \in found : c <= o,
                       [lastDoneDate |-> dateISO, lastDoneMileage |-> Num(mileage)])

\* a checkbox of the checklist of vehicle v: logMaintenanceQuick for the item
\* code, run on day today with the cost entered
QuickLog(v, code, cost, today) ==
    /\ v \in DOMAIN vehicles
    /\ ConfigsOf(vehicleMaintenance, v, code) # {}
    /\ nextId.tx <= MaxAutoTx
    /\ IF cost <= 0
       THEN /\ UNCHANGED tx
            /\ LoadVehicles(vehicleDocs, vehicleMaintenance, nextId.vehicleMaintenance)
            /\ LoadMonthData(tx, currentMonthYM)
            /\ lastOp' = Rejected("quickLog")
       ELSE LET m  == vehicles[v].currentMileage
                c1 == updateVehicleMaintLastDone(vehicleMaintenance, v, code, today, m)
                t1 == Put(tx, autoTxDocId(nextId.tx),
                          MergeFields(VehicleTxData(v, today, cost, cutoffDay),
                                      [maintenanceItemCode |-> code]))
                r  == ensureAllVehicles(c1, nextId.vehicleMaintenance, DOMAIN vehicleDocs)
            IN  /\ Fits(t1)
                /\ vehicles' = loadVehicles(vehicleDocs)
                /\ vehicleMaintenance' = r.cfgs
                /\ tx' = t1
                /\ nextId' = [nextId EXCEPT !.tx = @ + 1, !.vehicleMaintenance = r.next]
                /\ LoadMonthData(t1, currentMonthYM)
                /\ lastOp' = Ran("vehicleLog", <<v, m, today, code>>, None, 0, FALSE)
    /\ UNCHANGED <<pureVars, setVars, ruleVars, debtVars, fundVars, vehicleDocs>>

\* btnLogMileage for the vehicle selected, with the mileage entered; the
\* handler requires a date, which only names the mileage log written
LogMileage(v, mileage) ==
    /\ v \in DOMAIN vehicles
    /\ IF mileage <= 0
       THEN /\ UNCHANGED <<vehVars, currentTransactions, nextId>>
            /\ lastOp' = Other
       ELSE LET vd == updateDoc(vehicleDocs, v,
                          [currentMileage |-> MileageAfterLog(vehicles[v].currentMileage, mileage)])
            IN  /\ vehicleDocs' = vd
                /\ LoadVehicles(vd, vehicleMaintenance, nextId.vehicleMaintenance)
                /\ LoadMonthData(tx, currentMonthYM)
                /\ lastOp' = Ran("vehicleLog", <<v, mileage, Null, None>>, None,
                                 IF mileage < vehicles[v].currentMileage THEN 0 ELSE 1,
                                 vd # vehicleDocs)
    /\ UNCHANGED <<pureVars, setVars, ruleVars, debtVars, fundVars, tx>>

DeleteVehicle(v) ==
    /\ v \in DOMAIN vehicles
    /\ vehicleDocs' = Remove(vehicleDocs, v)
    /\ LoadVehicles(vehicleDocs', vehicleMaintenance, nextId.vehicleMaintenance)
    /\ LoadMonthData(tx, currentMonthYM)
    /\ lastOp' = Other
    /\ UNCHANGED <<pureVars, setVars, ruleVars, debtVars, fundVars, tx>>

(***************************************************************************)
(* 21) OT calculator                                                       *)
(***************************************************************************)
\* btnAddOtIncome with the total computeOtPay() and the date of the form
AddOtIncome(total, dateISO) ==
    /\ nextId.tx <= MaxAutoTx
    /\ IF total <= 0
       THEN UNCHANGED <<tx, currentTransactions, nextId>>
       ELSE LET t1 == Put(tx, autoTxDocId(nextId.tx),
                          [date |-> dateISO, type |-> "income", amount |-> total,
                           effectiveMonth |-> computeEffectiveMonth(dateISO, cutoffDay),
                           isOvertime |-> TRUE])
            IN  /\ Fits(t1)
                /\ tx' = t1
                /\ nextId' = [nextId EXCEPT !.tx = @ + 1]
                /\ LoadMonthData(t1, currentMonthYM)
    /\ lastOp' = Other
    /\ UNCHANGED <<pureVars, setVars, ruleVars, debtVars, fundVars, vehVars>>

(***************************************************************************)
(* The ledger: every handler that writes transactions, on small inputs     *)
(***************************************************************************)
Months == {<<BaseYear, 12>>, <<BaseYear + 1, 1>>}
CutoffInputs == {Num(0), NaN}
TodayDates == {<<BaseYear, 12, 5>>, <<BaseYear, 12, 25>>}

RecurringInputs ==
    [type : {"income"}, category : {"Salary"}, amount : {500000}, day : {Num(10)},
     startMonth : {None, <<BaseYear, 12>>}, endMonth : {None, <<BaseYear, 12>>},
     active : BOOLEAN, labelled : BOOLEAN]

BillInputs == [named : BOOLEAN, name : {"Rent"}, amount : {0, 120000}, dueDay : {NaN}]

TxInputs ==
    [date : {None, <<BaseYear, 12, 24>>},
     type : {"expense"}, category : {"Groceries"}, amount : {4200}]

Init ==
    /\ args = None
    /\ result = None
    /\ LedgerInit

Next ==
    \/ \E m \in Months : MonthPickerChange(m)
    \/ \E raw \in CutoffInputs : CutoffDayChange(raw)
    \/ \E inp \in RecurringInputs : AddRecurring(inp)
    \/ \E r \in DOMAIN recurring, a \in BOOLEAN : SetRecurringActive(r, a)
    \/ \E r \in DOMAIN recurring : DeleteRecurring(r)
    \/ ApplyRecurring
    \/ \E inp \in BillInputs : AddBill(inp)
    \/ \E b \in DOMAIN bills : DeleteBill(b)
    \/ ApplyBills
    \/ \E inp \in TxInputs : SaveNewTx(inp)
    \/ \E id \in currentTransactions, inp \in TxInputs : SaveTx(id, inp)
    \/ \E id \in currentTransactions : DeleteTx(id)

Spec == Init /\ [][Next]_vars

\* the transactions generated from rule r for month ym
RecurringTxOf(r, ym) ==
    {id \in DOMAIN tx :
        /\ Has(tx[id], "recurringId") /\ tx[id].recurringId = r
        /\ tx[id].sourceMonth = ym}

\* rule r is active and its [startMonth, endMonth] covers ym
RuleCovers(r, ym) ==
    /\ recurring[r].active
    /\ ~YMLess(ym, recurring[r].startMonth)
    /\ recurring[r].endMonth = None \/ ~YMLess(recurring[r].endMonth, ym)

\* C1: after ensureRecurringForMonth(M) has run n >= 1 times in succession,
\* the transactions hold exactly one transaction for every rule that is
\* active and whose [startMonth, endMonth] covers M, and every run after the
\* first leaves the stores as they were
RecurringIdempotent ==
    lastOp.op = "applyRecurring" =>
        /\ \A r \in DOMAIN recurring :
              RuleCovers(r, lastOp.ym) => Cardinality(RecurringTxOf(r, lastOp.ym)) = 1
        /\ lastOp.run >= 2 => ~lastOp.changed

RecurringIdempotentWitness ==
    /\ lastOp.op = "applyRecurring"
    /\ lastOp.run >= 2
    /\ \E r \in DOMAIN recurring :
          RuleCovers(r, lastOp.ym) /\ Cardinality(RecurringTxOf(r, lastOp.ym)) = 1

\* C6: when recomputeAllTxEffectiveMonths runs twice in a row with the same
\* cutoff day, the second run issues no write
RecomputeTwiceNoWrites ==
    (lastOp.op = "cutoffDay" /\ lastOp.run >= 2) => lastOp.writes = 0

RecomputeTwiceNoWritesWitness ==
    /\ lastOp.op = "cutoffDay"
    /\ lastOp.run >= 2
    /\ lastOp.writes = 0
    /\ \E id \in DOMAIN tx : tx[id].effectiveMonth # toYM(tx[id].date[1], tx[id].date[2] - 1)

(***************************************************************************)
(* The debts: payments, with the month picker, the cutoff day and the      *)
(* rows of the transaction table                                           *)
(***************************************************************************)
DebtInputs ==
    [named : BOOLEAN, apr : {12}, balance : {0, 100000, 1000006, 1200000},
     monthly : {0, 10000, 110000}, dueDay : {Num(5)}]

NextDebt ==
    \/ \E inp \in DebtInputs : AddDebt(inp)
    \/ \E d \in DOMAIN debts : PayDebt(d)
    \/ \E d \in DOMAIN debts : DeleteDebt(d)
    \/ \E m \in Months : MonthPickerChange(m)
    \/ \E raw \in CutoffInputs : CutoffDayChange(raw)
    \/ \E id \in currentTransactions, inp \in TxInputs : SaveTx(id, inp)
    \/ \E id \in currentTransactions : DeleteTx(id)

SpecDebt == Init /\ [][NextDebt]_vars

\* the payment transaction of debt d for month ym
DebtPayTx(d, ym) == tx[debtPayTxDocId(d, ym)]

\* the last operation was a recordDebtPayment that recorded a payment
PaymentJustRecorded == lastOp.op = "payDebt" /\ lastOp.writes > 0

\* x is n / d mills rounded to 2 decimals: a multiple of 10 mills at most
\* half a hundredth away from n / d
IsRounded2(x, n, d) ==
    /\ x % 10 = 0
    /\ x * d - n <= 5 * d
    /\ n - x * d <= 5 * d

\* C2: over any sequence of payments, month switches, cutoff-day changes and
\* edits or deletions of rows of the transaction table, a debt's
\* currentBalance is reduced by a payment at most once per (debt, month)
AtMostOnePaymentPerMonth == \A p \in DOMAIN payments : payments[p] <= 1

\* C3: when recordDebtPayment(debtId, M) runs twice in succession, the second
\* call finds the transaction debtpay_<debtId>_<M> and writes nothing: the
\* transactions and the debt are as the first call left them
SecondPaymentNoWrite ==
    (lastOp.op = "payDebt" /\ lastOp.run >= 2) =>
        /\ debtPayTxDocId(lastOp.ref, lastOp.ym) \in DOMAIN tx
        /\ lastOp.writes = 0
        /\ ~lastOp.changed

SecondPaymentNoWriteWitness ==
    /\ lastOp.op = "payDebt"
    /\ lastOp.run >= 2
    /\ debts[lastOp.ref].lastPaidMonth = lastOp.ym
    /\ debts[lastOp.ref].currentBalance < prevBalance[lastOp.ref]

\* C7: a first recordDebtPayment(debtId, M) on a debt with balance B, annual
\* rate apr and monthly payment P writes a transaction with amount P,
\* interest B*apr/100/12, principal max(0, P - interest) and balanceAfter
\* max(0, B - principal), each rounded to 2 decimals, and sets the debt's
\* currentBalance to balanceAfter and lastPaidMonth to M; apr = 12, B = 1200,
\* P = 110 gives interest 12.00, principal 98.00, balance 1102.00
PaymentArithmetic ==
    PaymentJustRecorded =>
        LET d   == lastOp.ref
            t   == DebtPayTx(d, lastOp.ym)
            B   == prevBalance[d]
            apr == debtDocs[d].apr
            P   == debtDocs[d].monthlyPayment
            pN  == Max(0, P * 1200 - B * apr)
        IN  /\ t.amount = P
            /\ IsRounded2(t.interest, B * apr, 1200)
            /\ IsRounded2(t.principal, pN, 1200)
            /\ IsRounded2(t.balanceAfter, Max(0, B * 1200 - pN), 1200)
            /\ debtDocs[d].currentBalance = t.balanceAfter
            /\ debtDocs[d].lastPaidMonth = lastOp.ym
            /\ (B = 1200000 /\ apr = 12 /\ P = 110000) =>
                  /\ t.interest = 12000
                  /\ t.principal = 98000
                  /\ debtDocs[d].currentBalance = 1102000

PaymentArithmeticWitness ==
    /\ PaymentJustRecorded
    /\ prevBalance[lastOp.ref] = 1200000
    /\ debtDocs[lastOp.ref].monthlyPayment = 110000
    /\ debtDocs[lastOp.ref].currentBalance = 1102000

\* C8: when monthlyPayment <= interest, recordDebtPayment still records the
\* payment transaction (amount = monthlyPayment, principal = 0) and the debt's
\* currentBalance after the call equals its balance before the call
PaymentBelowInterestKeepsBalance ==
    PaymentJustRecorded =>
        LET d == lastOp.ref
            t == DebtPayTx(d, lastOp.ym)
        IN  debtDocs[d].monthlyPayment * 1200 <= prevBalance[d] * debtDocs[d].apr =>
                /\ t.amount = debtDocs[d].monthlyPayment
                /\ t.principal = 0
                /\ debtDocs[d].currentBalance = prevBalance[d]

\* C9: for a debt created with currentBalance > 0 and apr >= 0, each stored
\* balance is <= the balance stored before it and >= 0
BalanceNonIncreasing ==
    \A d \in DOMAIN debtDocs :
        /\ debtDocs[d].currentBalance <= prevBalance[d]
        /\ debtDocs[d].currentBalance >= 0

(***************************************************************************)
(* The vehicles: creation, the three kinds of log, deletion                *)
(***************************************************************************)
VehicleInputs == [named : BOOLEAN, mileage : {0, 60000}]

ServiceLogInputs ==
    [date : {<<BaseYear, 12, 5>>}, mileage : {NaN, Num(-1), Num(50000), Num(61000)},
     cost : {0, 15000}, item : {None}]

MileageInputs == {0, 50000, 60000, 62000}

NextVeh ==
    \/ \E inp \in VehicleInputs : AddVehicle(inp)
    \/ \E v \in DOMAIN vehicles, inp \in ServiceLogInputs : AddServiceLog(v, inp)
    \/ \E v \in DOMAIN vehicles, i \in DOMAIN MaintItems, cost \in {0, 15000},
          today \in TodayDates : QuickLog(v, MaintItems[i], cost, today)
    \/ \E v \in DOMAIN vehicles, m \in MileageInputs : LogMileage(v, m)
    \/ \E v \in DOMAIN vehicles : DeleteVehicle(v)
    \/ \E id \in currentTransactions : DeleteTx(id)

SpecVeh == Init /\ [][NextVeh]_vars

\* C10: a vehicle's stored currentMileage never decreases in a step, whatever
\* full service or accessory log, quick log or monthly mileage log is made,
\* and a log whose mileage is lower than the stored value leaves it unchanged
MileageNeverDecreases ==
    [][\A v \in DOMAIN vehicleDocs \cap DOMAIN vehicleDocs' :
          /\ vehicleDocs'[v].currentMileage >= vehicleDocs[v].currentMileage
          /\ (/\ lastOp'.op = "vehicleLog"
              /\ lastOp'.ref[1] = v
              /\ lastOp'.ref[2] < vehicleDocs[v].currentMileage)
             => vehicleDocs'[v].currentMileage = vehicleDocs[v].currentMileage]_vars

MileageNeverDecreasesWitness ==
    /\ lastOp.op = "vehicleLog"
    /\ lastOp.ref[1] \in DOMAIN vehicleDocs
    /\ lastOp.ref[2] < vehicleDocs[lastOp.ref[1]].currentMileage
    /\ vehicleDocs[lastOp.ref[1]].currentMileage = 62000

(***************************************************************************)
(* Every handler that writes transactions, on one input each               *)
(***************************************************************************)
OneRule ==
    [type |-> "income", category |-> "Salary", amount |-> 500000, day |-> Num(10),
     startMonth |-> <<BaseYear, 12>>, endMonth |-> None, active |-> TRUE,
     labelled |-> TRUE]
OneBill == [named |-> TRUE, name |-> "Rent", amount |-> 120000, dueDay |-> NaN]
OneDebt == [named |-> TRUE, apr |-> 12, balance |-> 1200000, monthly |-> 110000,
            dueDay |-> Num(5)]
OneFund == [named |-> TRUE, goal |-> 300000, target |-> <<BaseYear + 1, 1>>, saved |-> 0]
OneVehicle == [named |-> TRUE, mileage |-> 60000]
OneTx == [date |-> <<BaseYear, 12, 24>>, type |-> "expense", category |-> "Groceries",
          amount |-> 4200]
OneLog == [date |-> <<BaseYear, 12, 5>>, mileage |-> Num(61000), cost |-> 15000,
           item |-> None]
Today == <<BaseYear, 12, 25>>

\* the master records stored, over the five collections
EntityCount ==
    Cardinality(DOMAIN recurring) + Cardinality(DOMAIN bills)
    + Cardinality(DOMAIN debtDocs) + Cardinality(DOMAIN fundDocs)
    + Cardinality(DOMAIN vehicleDocs)

NextAll ==
    \/ \E m \in Months : MonthPickerChange(m)
    \/ \E raw \in CutoffInputs : CutoffDayChange(raw)
    \/ EntityCount < MaxEntities /\ AddRecurring(OneRule)
    \/ EntityCount < MaxEntities /\ AddBill(OneBill)
    \/ SaveNewTx(OneTx)
    \/ \E id \in currentTransactions : SaveTx(id, OneTx)
    \/ \E id \in currentTransactions : DeleteTx(id)
    \/ EntityCount < MaxEntities /\ AddDebt(OneDebt)
    \/ \E d \in DOMAIN debts : PayDebt(d)
    \/ EntityCount < MaxEntities /\ AddFund(OneFund)
    \/ \E f \in DOMAIN funds : AddSaving(f, 100000, Today)
    \/ EntityCount < MaxEntities /\ AddVehicle(OneVehicle)
    \/ \E v \in DOMAIN vehicles : AddServiceLog(v, OneLog)
    \/ \E v \in DOMAIN vehicles : QuickLog(v, MaintItems[1], 15000, Today)
    \/ AddOtIncome(20000, Today)

SpecAll == Init /\ [][NextAll]_vars

\* C5: when no operation is in flight, every stored transaction that has a
\* date has effectiveMonth = computeEffectiveMonth(date, settings.cutoffDay),
\* after any sequence of manual saves, recurring and bill materializations,
\* debt payments, fund contributions, vehicle logs and cutoff-day changes
EffectiveMonthInSync ==
    \A id \in DOMAIN tx :
        Has(tx[id], "date") =>
            tx[id].effectiveMonth = computeEffectiveMonth(tx[id].date, cutoffDay)

EffectiveMonthInSyncWitness ==
    /\ lastOp.op = "cutoffDay"
    /\ lastOp.writes > 0
    /\ \E id \in DOMAIN tx : tx[id].effectiveMonth # <<tx[id].date[1], tx[id].date[2]>>
    /\ \E id \in DOMAIN tx : tx[id].effectiveMonth = <<tx[id].date[1], tx[id].date[2]>>

(***************************************************************************)
(* computeEffectiveMonth as a function of its inputs                       *)
(***************************************************************************)
InitEff ==
    /\ args \in [date : CalendarDates, cutoffDay : MinDay .. MaxDay]
    /\ result = None
    /\ LedgerInit

CallComputeEffectiveMonth ==
    /\ result = None
    /\ result' = computeEffectiveMonth(args.date, args.cutoffDay)
    /\ UNCHANGED <<args, calls, ledgerVars>>

NextEff == CallComputeEffectiveMonth

SpecEff == InitEff /\ [][NextEff]_vars

NextCalendarMonth(y, m) == IF m = 12 THEN <<y + 1, 1>> ELSE <<y, m + 1>>

\* C4: computeEffectiveMonth(date, cutoffDay) is the calendar month of the
\* date when its day is below the cutoff day and the following calendar
\* month, December rolling into January of the next year, when the day is at
\* or above it; with cutoff 25 the 24th stays and the 25th moves, and with
\* cutoff 1 every date moves.
EffectiveMonthRule ==
    result # None =>
        LET y == args.date[1]
            m == args.date[2]
            d == args.date[3]
            c == args.cutoffDay
        IN  /\ d < c => result = <<y, m>>
            /\ d >= c => result = NextCalendarMonth(y, m)
            /\ (c = 25 /\ d = 24) => result = <<y, m>>
            /\ (c = 25 /\ d = 25) => result = NextCalendarMonth(y, m)
            /\ c = 1 => result = NextCalendarMonth(y, m)

EffectiveMonthRuleWitness ==
    /\ result # None
    /\ result = <<BaseYear + 1, 1>>
    /\ args.date = <<BaseYear, 12, 25>>
    /\ args.cutoffDay = 25

(***************************************************************************)
(* Maintenance suggestions as a function of a stored configuration.       *)
(* src/app.js holds two variants of the program one after the other; they *)
(* differ in the vehicle-maintenance defaults and in computeSuggestion.   *)
(* Variant 1 is the first (lines 1 to 2741), variant 2 the second.        *)
(***************************************************************************)
KM_SOON == 500
DAYS_SOON == 14

\* a <= b on "YYYY-MM-DD" strings
DateLessEq(a, b) ==
    \/ a[1] < b[1]
    \/ a[1] = b[1] /\ a[2] < b[2]
    \/ a[1] = b[1] /\ a[2] = b[2] /\ a[3] <= b[3]

\* a Date whose day of month d exceeds the month: the surplus carries on
RECURSIVE carryDays(_, _, _)
carryDays(y, m, d) ==
    IF d > DaysInMonth(y, m)
    THEN LET n == addMonthsYM(<<y, m>>, 1)
         IN  carryDays(n[1], n[2], d - DaysInMonth(y, m))
    ELSE <<y, m, d>>

addDaysToISO(dateISO, days) == carryDays(dateISO[1], dateISO[2], dateISO[3] + days)

addMonthsToISO(dateISO, months) ==
    LET n == addMonthsYM(<<dateISO[1], dateISO[2]>>, months)
    IN  carryDays(n[1], n[2], dateISO[3])

\* the document ensureVehicleMaintenanceDefaults adds for an item, variant 1
DefaultConfig(code) ==
    [itemCode |-> code,
     intervalKm |-> DefaultIntervalKm(code),
     intervalMonths |-> DefaultIntervalMonths(code),
     lastDoneMileage |-> Null, lastDoneDate |-> Null]

\* the same of variant 2, for a vehicle at baseMileage added on day baseDate
DefaultConfigSeeded(code, baseMileage, baseDate) ==
    [itemCode |-> code,
     intervalKm |-> DefaultIntervalKm(code),
     intervalMonths |-> DefaultIntervalMonths(code),
     lastDoneMileage |-> Num(baseMileage), lastDoneDate |-> baseDate]

\* loadVehicleMaintenance: the cache entry of a stored document x, variant 1
loadVehicleMaintenance(x) ==
    [itemCode |-> x.itemCode,
     intervalKm |-> x.intervalKm,
     intervalMonths |-> x.intervalMonths,
     lastDoneMileage |-> IF x.lastDoneMileage = Null THEN Null ELSE Num(x.lastDoneMileage[1]),
     lastDoneDate |-> IF x.lastDoneDate # Null THEN x.lastDoneDate ELSE Null]

\* the same of variant 2: a missing mileage is 0 and a missing date is ""
\* (Null here)
loadVehicleMaintenanceSeeded(x) ==
    [itemCode |-> x.itemCode,
     intervalKm |-> x.intervalKm,
     intervalMonths |-> x.intervalMonths,
     lastDoneMileage |-> IF x.lastDoneMileage = Null THEN Num(0) ELSE Num(x.lastDoneMileage[1]),
     lastDoneDate |-> IF x.lastDoneDate # Null THEN x.lastDoneDate ELSE Null]

mileageOverdueStrict(nowMileage, nextDueMileage) ==
    nextDueMileage # Null /\ nowMileage > nextDueMileage[1]

mileageOverdue(nowMileage, nextDueMileage) ==
    nextDueMileage # Null /\ nowMileage >= nextDueMileage[1]

\* the part of computeSuggestion the two variants share: the status from the
\* due points
SuggestionStatus(nowMileage, nextDueMileage, nextDueDate, today) ==
    LET overdue == \/ mileageOverdue(nowMileage, nextDueMileage)
                   \/ nextDueDate # Null /\ DateLessEq(nextDueDate, today)
        dueSoon == \/ nextDueMileage # Null /\ nextDueMileage[1] - nowMileage <= KM_SOON
                   \/ nextDueDate # Null
                        /\ DateLessEq(nextDueDate, addDaysToISO(today, DAYS_SOON))
    IN  IF overdue THEN "overdue" ELSE IF dueSoon THEN "soon" ELSE "ok"

\* computeSuggestion of variant 1, on a day today
computeSuggestion(vehicle, cfg, today) ==
    LET nowMileage  == vehicle.currentMileage
        lastMileage == cfg.lastDoneMileage
        lastDate    == cfg.lastDoneDate
    IN  IF lastDate = Null /\ lastMileage = Null
        THEN [status |-> "soon", nextDueMileage |-> Null, nextDueDate |-> Null,
              noHistory |-> TRUE]
        ELSE LET nextDueMileage ==
                     IF cfg.intervalKm > 0 /\ lastMileage # Null
                     THEN Num(lastMileage[1] + cfg.intervalKm) ELSE Null
                 nextDueDate ==
                     IF cfg.intervalMonths > 0 /\ lastDate # Null
                     THEN addMonthsToISO(lastDate, cfg.intervalMonths) ELSE Null
             IN  [status |-> SuggestionStatus(nowMileage, nextDueMileage, nextDueDate, today),
                  nextDueMileage |-> nextDueMileage, nextDueDate |-> nextDueDate,
                  noHistory |-> FALSE]

\* computeSuggestion of variant 2: no branch for a missing history
computeSuggestionSeeded(vehicle, cfg, today) ==
    LET nowMileage  == vehicle.currentMileage
        lastMileage == cfg.lastDoneMileage[1]
        lastDate    == cfg.lastDoneDate
        nextDueMileage ==
            IF cfg.intervalKm > 0 THEN Num(lastMileage + cfg.intervalKm) ELSE Null
        nextDueDate ==
            IF cfg.intervalMonths > 0 /\ lastDate # Null
            THEN addMonthsToISO(lastDate, cfg.intervalMonths) ELSE Null
    IN  [status |-> SuggestionStatus(nowMileage, nextDueMileage, nextDueDate, today),
         nextDueMileage |-> nextDueMileage, nextDueDate |-> nextDueDate,
         noHistory |-> FALSE]

SugMileages == {50000, 59499, 59500, 59550, 60000}

SugToday ==
    {<<BaseYear, 11, 30>>, <<BaseYear, 12, 1>>, <<BaseYear, 12, 14>>, <<BaseYear, 12, 15>>,
     <<BaseYear + 1, 2, 16>>, <<BaseYear + 1, 2, 17>>, <<BaseYear + 1, 3, 3>>}

\* configurations after a log: updateVehicleMaintLastDone writes both values
LoggedConfigs ==
    [itemCode : {"engine_oil"},
     intervalKm : {0, 10000},
     intervalMonths : {0, 6},
     lastDoneMileage : {Num(50000)},
     lastDoneDate : {<<BaseYear, 6, 15>>, <<BaseYear, 8, 31>>}]

Codes == {MaintItems[i] : i \in 1 .. Len(MaintItems)}

\* what ensureVehicleMaintenanceDefaults of the variant stores for a vehicle
\* added on day today at the mileage given
NewConfigs(variant, mileage, today) ==
    IF variant = 1 THEN {DefaultConfig(code) : code \in Codes}
    ELSE {DefaultConfigSeeded(code, mileage, today) : code \in Codes}

InitSug ==
    /\ args \in UNION {
           [variant : {variant}, currentMileage : {mileage}, today : {today},
            cfg : NewConfigs(variant, mileage, today) \cup LoggedConfigs] :
           <<variant, mileage, today>> \in {1, 2} \X SugMileages \X SugToday}
    /\ result = None
    /\ LedgerInit

CallComputeSuggestion ==
    /\ result = None
    /\ result' = <<
           IF args.variant = 1
           THEN computeSuggestion([currentMileage |-> args.currentMileage],
                                  loadVehicleMaintenance(args.cfg), args.today)
           ELSE computeSuggestionSeeded([currentMileage |-> args.currentMileage],
                                        loadVehicleMaintenanceSeeded(args.cfg), args.today) >>
    /\ UNCHANGED <<args, calls, ledgerVars>>

NextSug == CallComputeSuggestion

SpecSug == InitSug /\ [][NextSug]_vars

HasHistory(cfg) == cfg.lastDoneMileage # Null \/ cfg.lastDoneDate # Null

\* C11: for a configuration with a history computeSuggestion returns
\* 'overdue' iff the mileage due point exists and currentMileage has reached
\* lastDoneMileage + intervalKm, or the date due point exists and today has
\* reached lastDoneDate + intervalMonths; otherwise 'soon' iff the mileage
\* due point is at most 500 km away or the date due point is at most 14 days
\* away; otherwise 'ok'.  A due point exists for an interval > 0 whose
\* last-done value is present.  With intervalKm 10000 and lastDoneMileage
\* 50000 and no date due point, 59550 km gives 'soon', 60000 km 'overdue'.
SuggestionRule ==
    (result # None /\ HasHistory(args.cfg)) =>
        LET cfg     == args.cfg
            now     == args.currentMileage
            kmDue   == cfg.intervalKm > 0 /\ cfg.lastDoneMileage # Null
            dateDue == cfg.intervalMonths > 0 /\ cfg.lastDoneDate # Null
            dueKm   == cfg.lastDoneMileage[1] + cfg.intervalKm
            dueDate == addMonthsToISO(cfg.lastDoneDate, cfg.intervalMonths)
            overdue == \/ kmDue /\ now >= dueKm
                       \/ dateDue /\ DateLessEq(dueDate, args.today)
            soon    == \/ kmDue /\ dueKm - now <= 500
                       \/ dateDue /\ DateLessEq(dueDate, addDaysToISO(args.today, 14))
        IN  /\ result[1].status = IF overdue THEN "overdue"
                               ELSE IF soon THEN "soon" ELSE "ok"
            /\ (result[1].nextDueMileage # Null) = kmDue
            /\ (result[1].nextDueDate # Null) = dateDue
            /\ (cfg.intervalKm = 10000 /\ cfg.lastDoneMileage = Num(50000) /\ ~dateDue) =>
                   /\ now = 59550 => result[1].status = "soon"
                   /\ now = 60000 => result[1].status = "overdue"

SuggestionRuleWitness ==
    /\ result # None
    /\ args.cfg.intervalKm = 10000
    /\ args.cfg.intervalMonths = 0
    /\ args.cfg.lastDoneMileage = Num(50000)
    /\ args.currentMileage = 60000
    /\ result[1].status = "overdue"

\* C12: a configuration with no last-done record, as every item of a newly
\* added vehicle has before its first log, gets status 'soon', never 'ok' or
\* 'overdue', whatever the mileage and the date
NewVehicleItemsSoon ==
    (result # None /\ args.cfg \in NewConfigs(args.variant, args.currentMileage, args.today)) =>
        result[1].status = "soon"

(***************************************************************************)
(* 19) Monthly view: buildMonthlyRows as a function of the plan and the   *)
(* transactions of the month, on the names used below                     *)
(***************************************************************************)
MaxPlanItems == 2
MaxMonthTx == 2

\* String.trim on the names used
trim(s) ==
    CASE s = " Food " -> "Food"
      [] s = "  "     -> ""
      [] OTHER        -> s

\* String.toLowerCase on the names used
toLowerCase(s) ==
    CASE s = "Food"  -> "food"
      [] s = "Home"  -> "home"
      [] s = "Meal"  -> "meal"
      [] s = "Other" -> "other"
      [] s = "Snack" -> "snack"
      [] OTHER       -> s

\* the position of a name in the collation order of localeCompare
NameRank(s) ==
    CASE s = ""      -> 0
      [] s = "food"  -> 1
      [] s = "Food"  -> 2
      [] s = "Home"  -> 3
      [] s = "Meal"  -> 4
      [] s = "Other" -> 5
      [] s = "Snack" -> 6

localeCompare(a, b) ==
    IF NameRank(a) < NameRank(b) THEN -1 ELSE IF NameRank(a) > NameRank(b) THEN 1 ELSE 0

\* a key that keeps the letter case
normalizeKeyCaseSensitive(group, category, type) == <<trim(group), trim(category), trim(type)>>

normalizeKey(group, category, type) ==
    <<toLowerCase(trim(group)), toLowerCase(trim(category)), toLowerCase(trim(type))>>

\* map.get(key).planned += planned (or .actual += actual), the row created
\* with the names given when the key is new; m is [rows, keys] with keys in
\* the order of insertion
MapAdd(m, group, category, type, planned, actual) ==
    LET key == normalizeKey(group, category, type)
        old == IF key \in DOMAIN m.rows THEN m.rows[key]
               ELSE [group |-> group, category |-> category, type |-> type,
                     planned |-> 0, actual |-> 0]
        new == [old EXCEPT !.planned = @ + planned, !.actual = @ + actual]
    IN  [rows |-> Put(m.rows, key, new),
         keys |-> IF key \in DOMAIN m.rows THEN m.keys ELSE Append(m.keys, key)]

\* the loop over currentPlan from item i on
RECURSIVE AddPlanItems(_, _, _)
AddPlanItems(m, plan, i) ==
    IF i > Len(plan) THEN m
    ELSE LET p        == plan[i]
             type     == IF p.type = "income" THEN "income" ELSE "expense"
             group    == trim(p.group)
             category == trim(p.category)
         IN  IF group = "" /\ category = "" THEN AddPlanItems(m, plan, i + 1)
             ELSE AddPlanItems(MapAdd(m, group, category, type, p.planned, 0),
                               plan, i + 1)

\* the loop over currentTransactions from item i on
RECURSIVE AddMonthTx(_, _, _)
AddMonthTx(m, txs, i) ==
    IF i > Len(txs) THEN m
    ELSE LET t        == txs[i]
             type     == IF t.type = "income" THEN "income" ELSE "expense"
             orOther(s) == IF s = "" THEN "Other" ELSE s
             group    == orOther(trim(orOther(t.group)))
             category == orOther(trim(orOther(t.category)))
         IN  AddMonthTx(MapAdd(m, group, category, type, 0, t.amount), txs, i + 1)

rowDiffSwapped(type, planned, actual) ==
    IF type = "expense" THEN actual - planned ELSE planned - actual

rowDiff(type, planned, actual) ==
    IF type = "expense" THEN planned - actual ELSE actual - planned

\* a row of the map with its diff, status and badge
ClassifyRow(r) ==
    LET diff == rowDiff(r.type, r.planned, r.actual)
        sb == IF r.type = "expense"
              THEN IF r.planned = 0 /\ r.actual > 0 THEN <<"Not planned", "warn">>
                   ELSE IF diff >= 0 THEN <<"Good (within plan)", "ok">>
                   ELSE <<"Over budget", "bad">>
              ELSE IF r.planned = 0 /\ r.actual > 0 THEN <<"Extra income", "ok">>
                   ELSE IF diff > 0 THEN <<"Good (above plan)", "ok">>
                   ELSE IF diff = 0 THEN <<"On plan", "ok">>
                   ELSE <<"Below plan", "warn">>
    IN  [group |-> r.group, category |-> r.category, type |-> r.type,
         planned |-> r.planned, actual |-> r.actual,
         diff |-> diff, status |-> sb[1], badge |-> sb[2]]

rowCompareByDiffOnly(a, b) ==
    IF a.type # b.type THEN (IF a.type = "expense" THEN -1 ELSE 1)
    ELSE a.diff - b.diff

\* the comparator of rows.sort
rowCompare(a, b) ==
    IF a.type # b.type THEN (IF a.type = "expense" THEN -1 ELSE 1)
    ELSE IF a.diff # b.diff THEN a.diff - b.diff
    ELSE IF localeCompare(a.group, b.group) # 0 THEN localeCompare(a.group, b.group)
    ELSE localeCompare(a.category, b.category)

\* Array.prototype.sort is stable: r goes behind the rows not greater than it
RECURSIVE InsertRow(_, _)
InsertRow(sorted, r) ==
    IF sorted = <<>> THEN <<r>>
    ELSE IF rowCompare(sorted[Len(sorted)], r) <= 0 THEN Append(sorted, r)
    ELSE Append(InsertRow(SubSeq(sorted, 1, Len(sorted) - 1), r), sorted[Len(sorted)])

RECURSIVE SortRows(_, _)
SortRows(rows, i) ==
    IF i = 0 THEN <<>> ELSE InsertRow(SortRows(rows, i - 1), rows[i])

buildMonthlyRows(plan, txs) ==
    LET m    == AddMonthTx(AddPlanItems([rows |-> EmptyDocs, keys |-> <<>>], plan, 1), txs, 1)
        rows == [i \in 1 .. Len(m.keys) |-> ClassifyRow(m.rows[m.keys[i]])]
    IN  SortRows(rows, Len(rows))

PlanNames == {<<"", "">>, <<"Food", "Meal">>, <<"Food", "Snack">>, <<"Home", "Meal">>}

PlanItems ==
    {[group |-> n[1], category |-> n[2], type |-> t, planned |-> p] :
        n \in PlanNames, t \in {"expense", "income"}, p \in {0, 500000}}

MonthTxNames == {<<"", "">>, <<"food", "Meal">>, <<"Home", "Meal">>}

MonthTxItems ==
    {[group |-> n[1], category |-> n[2], type |-> t, amount |-> a] :
        n \in MonthTxNames, t \in {"expense", "income"}, a \in {200000, 600000}}

SeqsUpTo(S, n) == UNION {[1 .. k -> S] : k \in 0 .. n}

InitMonthly ==
    /\ args \in [plan : SeqsUpTo(PlanItems, MaxPlanItems),
                 txs : SeqsUpTo(MonthTxItems, MaxMonthTx)]
    /\ result = None
    /\ LedgerInit

CallBuildMonthlyRows ==
    /\ result = None
    /\ result' = <<buildMonthlyRows(args.plan, args.txs)>>
    /\ UNCHANGED <<args, calls, ledgerVars>>

NextMonthly == CallBuildMonthlyRows

SpecMonthly == InitMonthly /\ [][NextMonthly]_vars

\* C13: buildMonthlyRows classifies every row by the fixed policy.  An
\* expense row has diff = planned - actual and is 'Not planned' (warn) if
\* planned = 0 and actual > 0, else 'Good (within plan)' (ok) if diff >= 0,
\* else 'Over budget' (bad).  An income row has diff = actual - planned and
\* is 'Extra income' (ok) if planned = 0 and actual > 0, else 'Good (above
\* plan)' if diff > 0, 'On plan' if diff = 0, 'Below plan' (warn) if
\* diff < 0.  Expense 500 planned, 600 actual: diff -100, 'Over budget';
\* income 0 planned, 200 actual: 'Extra income'.
MonthlyRowPolicy ==
    result # None =>
        \A i \in 1 .. Len(result[1]) :
            LET r == result[1][i]
            IN  /\ r.type = "expense" =>
                    /\ r.diff = r.planned - r.actual
                    /\ (r.planned = 0 /\ r.actual > 0) =>
                           (r.status = "Not planned" /\ r.badge = "warn")
                    /\ (~(r.planned = 0 /\ r.actual > 0) /\ r.diff >= 0) =>
                           (r.status = "Good (within plan)" /\ r.badge = "ok")
                    /\ (~(r.planned = 0 /\ r.actual > 0) /\ r.diff < 0) =>
                           (r.status = "Over budget" /\ r.badge = "bad")
                    /\ (r.planned = 500000 /\ r.actual = 600000) =>
                           (r.diff = -100000 /\ r.status = "Over budget")
                /\ r.type = "income" =>
                    /\ r.diff = r.actual - r.planned
                    /\ (r.planned = 0 /\ r.actual > 0) =>
                           (r.status = "Extra income" /\ r.badge = "ok")
                    /\ (~(r.planned = 0 /\ r.actual > 0) /\ r.diff > 0) =>
                           (r.status = "Good (above plan)" /\ r.badge = "ok")
                    /\ (~(r.planned = 0 /\ r.actual > 0) /\ r.diff = 0) =>
                           (r.status = "On plan" /\ r.badge = "ok")
                    /\ (~(r.planned = 0 /\ r.actual > 0) /\ r.diff < 0) =>
                           (r.status = "Below plan" /\ r.badge = "warn")
                    /\ (r.planned = 0 /\ r.actual = 200000) => r.status = "Extra income"

MonthlyRowPolicyWitness ==
    /\ result # None
    /\ \E i \in 1 .. Len(result[1]) :
           /\ result[1][i].type = "expense"
           /\ result[1][i].planned = 500000
           /\ result[1][i].actual = 600000
           /\ result[1][i].status = "Over budget"
    /\ \E i \in 1 .. Len(result[1]) :
           /\ result[1][i].type = "income"
           /\ result[1][i].planned = 0
           /\ result[1][i].actual = 200000
           /\ result[1][i].status = "Extra income"

\* C14: the rows returned by buildMonthlyRows are totally ordered: every
\* expense row precedes every income row; within one type the rows are in
\* ascending diff; rows of the same type and equal diff are ordered by group
\* and then by category.
MonthlyRowOrder ==
    result # None =>
        \A i, j \in 1 .. Len(result[1]) :
            i < j =>
                LET a == result[1][i]
                    b == result[1][j]
                IN  /\ ~(a.type = "income" /\ b.type = "expense")
                    /\ a.type = b.type => a.diff <= b.diff
                    /\ (a.type = b.type /\ a.diff = b.diff) =>
                           \/ NameRank(a.group) < NameRank(b.group)
                           \/ /\ a.group = b.group
                              /\ NameRank(a.category) < NameRank(b.category)

MonthlyRowOrderWitness ==
    /\ result # None
    /\ Len(result[1]) = 4
    /\ result[1][1].type = "expense"
    /\ result[1][2].type = "expense"
    /\ result[1][1].diff = result[1][2].diff
    /\ result[1][1].group # result[1][2].group
    /\ result[1][3].type = "income"
    /\ result[1][3].diff = result[1][4].diff
    /\ result[1][3].group = result[1][4].group

(***************************************************************************)
(* The funds: creation, contributions, deletion                           *)
(***************************************************************************)
FundInputs ==
    [named : BOOLEAN, goal : {0, 300000}, target : {None, <<BaseYear + 1, 1>>},
     saved : {0, 100000, 100004}]

SavingInputs == {0, 4, 25000, 50000}

NextFund ==
    \/ \E inp \in FundInputs : AddFund(inp)
    \/ \E f \in DOMAIN funds, amt \in SavingInputs, today \in TodayDates :
          AddSaving(f, amt, today)
    \/ \E f \in DOMAIN funds : DeleteFund(f)
    \/ \E m \in Months : MonthPickerChange(m)
    \/ \E id \in currentTransactions : DeleteTx(id)

SpecFund == Init /\ [][NextFund]_vars

\* the fund-contribution transactions of fund f for month ym dated day
FundContribTx(f, ym, day) ==
    {id \in DOMAIN tx :
        /\ Has(tx[id], "isFundContribution")
        /\ tx[id].fundId = f
        /\ tx[id].month = ym
        /\ tx[id].date = day}

\* C15 as stated: after k >= 1 contributions a_1 .. a_k to the same fund for
\* the same month on the same day, the fund's currentSaved has increased by
\* the sum of the a_i
SavedIncreasedBySum ==
    lastOp.op = "addSaving" =>
        fundDocs[lastOp.ref[1]].currentSaved = lastOp.ref[3] + lastOp.ref[4]

\* C15: after k >= 1 contributions a_1 .. a_k to the same fund for the same
\* month M on the same day, exactly one fund-contribution transaction exists
\* for them, at id fund_<fundId>_<M>_<today>, carrying the amount of the last
\* call; currentSaved is stored with two decimals, and it has increased by
\* the sum of the a_i when the starting currentSaved and all a_i have at most
\* two decimals
SameDayContributionsCollapse ==
    lastOp.op = "addSaving" =>
        LET f    == lastOp.ref[1]
            day  == lastOp.ref[2]
            base == lastOp.ref[3]
            sum  == lastOp.ref[4]
            last == lastOp.ref[5]
            id   == fundContribTxDocId(f, lastOp.ym, day)
        IN  /\ FundContribTx(f, lastOp.ym, day) = {id}
            /\ tx[id].amount = last
            /\ fundDocs[f].currentSaved % 10 = 0
            /\ lastOp.ref[6] => fundDocs[f].currentSaved = base + sum

SameDayContributionsCollapseWitness ==
    /\ lastOp.op = "addSaving"
    /\ lastOp.run = 2
    /\ lastOp.ref[6]
    /\ lastOp.ref[4] = 75000
    /\ lastOp.ref[5] = 25000
    /\ fundDocs[lastOp.ref[1]].currentSaved = 175000
    /\ Cardinality(FundContribTx(lastOp.ref[1], lastOp.ym, lastOp.ref[2])) = 1

(***************************************************************************)
(* 'Add saving' handlers in flight together.  A handler is split at its   *)
(* awaits: setDoc of the transaction, updateDoc of the fund, loadFunds,   *)
(* loadMonthData.  Two clicks may overlap in one page, and two pages of   *)
(* the same user share the store.                                         *)
(***************************************************************************)
MaxCalls == 2

CallIds == 1 .. MaxCalls

AsyncSavingInputs == {25000, 50000}

\* the click, the prompt and addFundContribution up to its first await: the
\* fund object is taken from the cache, the transaction data is built
SavingStart(c, f, amt, today) ==
    /\ c \notin DOMAIN calls
    /\ f \in DOMAIN funds
    /\ amt > 0
    /\ funds[f].currentSaved + amt <= MaxSaved
    /\ calls' = Put(calls, c,
                    [op |-> "addSaving", pc |-> "setDoc", fundId |-> f,
                     amount |-> amt, fund |-> funds[f],
                     txId |-> fundContribTxDocId(f, currentMonthYM, today),
                     data |-> FundContribTxData(f, amt, currentMonthYM, today, cutoffDay)])
    /\ lastOp' = Other
    /\ UNCHANGED <<args, result, setVars, ruleVars, debtVars, fundVars, vehVars, txVars>>

\* await setDoc(transaction)
SavingSetDoc(c) ==
    /\ c \in DOMAIN calls
    /\ calls[c].op = "addSaving"
    /\ calls[c].pc = "setDoc"
    /\ Fits(setDocMerge(tx, calls[c].txId, calls[c].data))
    /\ tx' = setDocMerge(tx, calls[c].txId, calls[c].data)
    /\ calls' = [calls EXCEPT ![c].pc = "updateDoc"]
    /\ lastOp' = Other
    /\ UNCHANGED <<args, result, setVars, ruleVars, debtVars, fundVars, vehVars,
                   currentTransactions, nextId>>

\* await updateDoc(fund): the new total is computed from the fund object
\* taken at the start
SavingUpdateDoc(c) ==
    /\ c \in DOMAIN calls
    /\ calls[c].op = "addSaving"
    /\ calls[c].pc = "updateDoc"
    /\ calls[c].fundId \in DOMAIN fundDocs
    /\ fundDocs' = updateDoc(fundDocs, calls[c].fundId,
                       [currentSaved |->
                            toFixed2(calls[c].fund.currentSaved + calls[c].amount, 1)])
    /\ calls' = [calls EXCEPT ![c].pc = "loadFunds"]
    /\ lastOp' = Other
    /\ UNCHANGED <<args, result, setVars, ruleVars, debtVars, funds, vehVars, txVars>>

\* await loadFunds()
SavingLoadFunds(c) ==
    /\ c \in DOMAIN calls
    /\ calls[c].op = "addSaving"
    /\ calls[c].pc = "loadFunds"
    /\ funds' = loadFunds(fundDocs)
    /\ calls' = [calls EXCEPT ![c].pc = "loadMonthData"]
    /\ lastOp' = Other
    /\ UNCHANGED <<args, result, setVars, ruleVars, debtVars, fundDocs, vehVars, txVars>>

\* await loadMonthData(); the handler is done
SavingLoadMonthData(c) ==
    /\ c \in DOMAIN calls
    /\ calls[c].op = "addSaving"
    /\ calls[c].pc = "loadMonthData"
    /\ LET t1 == applyAutoStuffForMonth(tx, recurring, bills, currentMonthYM, cutoffDay)
       IN  /\ Fits(t1)
           /\ tx' = t1
           /\ LoadMonthData(t1, currentMonthYM)
    /\ calls' = Remove(calls, c)
    /\ lastOp' = Other
    /\ UNCHANGED <<args, result, setVars, ruleVars, debtVars, fundVars, vehVars, nextId>>

NextFundAsync ==
    \/ calls = <<>> /\ \E inp \in FundInputs : AddFund(inp)
    \/ \E c \in CallIds, f \in DOMAIN funds, amt \in AsyncSavingInputs :
          SavingStart(c, f, amt, Today)
    \/ \E c \in CallIds : SavingSetDoc(c)
    \/ \E c \in CallIds : SavingUpdateDoc(c)
    \/ \E c \in CallIds : SavingLoadFunds(c)
    \/ \E c \in CallIds : SavingLoadMonthData(c)

SpecFundAsync == Init /\ [][NextFundAsync]_vars

\* C16: a fund's stored currentSaved is monotonically non-decreasing under
\* contributions, also when 'Add saving' handlers interleave at their await
\* points: no step lowers the stored currentSaved
SavedNeverLowered ==
    [][\A f \in DOMAIN fundDocs \cap DOMAIN fundDocs' :
          fundDocs'[f].currentSaved >= fundDocs[f].currentSaved]_vars

(***************************************************************************)
(* ensureRecurringForMonth / ensureBillsForMonth with their upserts as    *)
(* separate steps.  The loop issues every setDoc before the one await on  *)
(* Promise.all, so the upserts of a call settle one by one in any order,  *)
(* also after Promise.all has rejected; an upsert may fail.               *)
(***************************************************************************)
MaxFailures == 1

\* the writes array of ensureRecurringForMonth(ym)
RecurringUpserts(rules, ym, cutoff) ==
    {[id |-> recurringTxDocId(r, dateFromYMDay(ym, rules[r].dayOfMonth)),
      data |-> RecurringTxData(r, rules[r], ym, cutoff)] :
        r \in RecurringEligible(rules, ym)}

\* the writes array of ensureBillsForMonth(ym)
BillUpserts(bs, ym, cutoff) ==
    {[id |-> billTxDocId(b, dateFromYMDay(ym, bs[b].dueDay)),
      data |-> BillTxData(b, bs[b], ym, cutoff)] :
        b \in {x \in DOMAIN bs : bs[x].active}}

UpsertsOf(kind, ym) ==
    IF kind = "recurring" THEN RecurringUpserts(recurring, ym, cutoffDay)
    ELSE BillUpserts(bills, ym, cutoffDay)

\* one complete, failure-free call on the transactions txs
EnsureOnce(kind, txs, ym) ==
    IF kind = "recurring" THEN ensureRecurringForMonth(txs, recurring, ym, cutoffDay)
    ELSE ensureBillsForMonth(txs, bills, ym, cutoffDay)

ApplyUpsertAsNew(txs, w) == Put(txs, <<"new", Cardinality(DOMAIN txs), w.id>>, w.data)

\* setDoc(txDoc, data, { merge: true }) settles
ApplyUpsert(txs, w) == setDocMerge(txs, w.id, w.data)

WritesAbandoned(pending) == {}

\* the upserts still to settle once one of them has failed: Promise.all
\* rejects, the setDoc calls already issued go on
WritesAfterFailure(pending) == pending

\* what is known of the calls made in a row for one kind and month: the
\* transactions before the first of them, whether two were in flight
\* together, the upserts that failed, the calls that returned an error, and
\* whether a call started after the failure has returned without error
EnsureOp(ym, ref) ==
    [op |-> "ensure", ref |-> ref, ym |-> ym, writes |-> 0, changed |-> FALSE, run |-> 0]

\* a call that has returned and whose upserts have all settled is over
Keep(c, frame) ==
    IF frame.returned /\ frame.pending = {} THEN Remove(calls, c) ELSE Put(calls, c, frame)

\* ensureRecurringForMonth(ym) or ensureBillsForMonth(ym) up to its await
EnsureStart(c, kind) ==
    LET ym    == currentMonthYM
        again == lastOp.op = "ensure" /\ lastOp.ref.kind = kind /\ lastOp.ym = ym
        ref   == IF again
                 THEN [lastOp.ref EXCEPT !.overlap = @ \/ calls # <<>>,
                                         !.started = Min(@ + 1, MaxCalls)]
                 ELSE [kind |-> kind, base |-> tx, overlap |-> FALSE, started |-> 1,
                       failed |-> {}, errors |-> 0, healed |-> FALSE]
    IN  /\ c \notin DOMAIN calls
        /\ calls # <<>> => again
        /\ calls' = Put(calls, c,
                        [op |-> "ensure", kind |-> kind, ym |-> ym,
                         pending |-> UpsertsOf(kind, ym), failed |-> {},
                         returned |-> FALSE,
                         afterFailure |-> again /\ lastOp.ref.failed # {}])
        /\ lastOp' = EnsureOp(ym, ref)
        /\ UNCHANGED <<args, result, setVars, ruleVars, debtVars, fundVars, vehVars, txVars>>

\* one upsert settles
EnsureWrite(c, w) ==
    /\ c \in DOMAIN calls
    /\ calls[c].op = "ensure"
    /\ w \in calls[c].pending
    /\ tx' = ApplyUpsert(tx, w)
    /\ calls' = Keep(c, [calls[c] EXCEPT !.pending = @ \ {w}])
    /\ UNCHANGED <<args, result, setVars, ruleVars, debtVars, fundVars, vehVars,
                   currentTransactions, nextId, lastOp>>

\* one upsert is rejected by the store
EnsureWriteFails(c, w) ==
    /\ c \in DOMAIN calls
    /\ calls[c].op = "ensure"
    /\ w \in calls[c].pending
    /\ ~calls[c].returned
    /\ Cardinality(lastOp.ref.failed) < MaxFailures
    /\ calls' = Put(calls, c, [calls[c] EXCEPT !.pending = WritesAfterFailure(@ \ {w}),
                                               !.failed = @ \cup {w.id}])
    /\ lastOp' = [lastOp EXCEPT !.ref.failed = @ \cup {w.id}]
    /\ UNCHANGED <<args, result, setVars, ruleVars, debtVars, fundVars, vehVars, txVars>>

\* await Promise.all(writes) is over: rejected as soon as an upsert has
\* failed, fulfilled when all have settled
EnsureReturn(c) ==
    /\ c \in DOMAIN calls
    /\ calls[c].op = "ensure"
    /\ ~calls[c].returned
    /\ calls[c].failed # {} \/ calls[c].pending = {}
    /\ calls' = Keep(c, [calls[c] EXCEPT !.returned = TRUE])
    /\ lastOp' = IF calls[c].failed # {}
                 THEN [lastOp EXCEPT !.ref.errors = @ + 1]
                 ELSE [lastOp EXCEPT !.ref.healed = @ \/ calls[c].afterFailure]
    /\ UNCHANGED <<args, result, setVars, ruleVars, debtVars, fundVars, vehVars, txVars>>

\* two rules and two bills as btnAddRecurring and btnAddBill store them
EnsureRules ==
    {<<[type |-> "income", category |-> "Salary", amount |-> 500000, dayOfMonth |-> 10,
        startMonth |-> <<BaseYear, 12>>, endMonth |-> None, active |-> TRUE],
       [type |-> "expense", category |-> "Fuel", amount |-> 42000, dayOfMonth |-> 26,
        startMonth |-> <<BaseYear, 12>>, endMonth |-> None, active |-> a]>> :
        a \in BOOLEAN}

EnsureBills ==
    <<[name |-> "Rent", amount |-> 120000, dueDay |-> 1, active |-> TRUE],
      [name |-> "Power", amount |-> 80000, dueDay |-> 26, active |-> TRUE]>>

\* the rules and bills are stored; their transactions of the month are
\* there, or the user has deleted those rows
InitEnsure ==
    /\ args = None
    /\ result = None
    /\ calls = <<>>
    /\ cutoffDay = DefaultCutoffDay
    /\ currentMonthYM = <<BaseYear, 12>>
    /\ recurring \in EnsureRules
    /\ bills = EnsureBills
    /\ debtDocs = EmptyDocs
    /\ debts = EmptyDocs
    /\ prevBalance = EmptyDocs
    /\ payments = EmptyDocs
    /\ fundDocs = EmptyDocs
    /\ funds = EmptyDocs
    /\ vehicleDocs = EmptyDocs
    /\ vehicles = EmptyDocs
    /\ vehicleMaintenance = EmptyDocs
    /\ tx \in {EmptyDocs,
               applyAutoStuffForMonth(EmptyDocs, recurring, bills, currentMonthYM, cutoffDay)}
    /\ currentTransactions = loadTransactionsForMonth(tx, currentMonthYM)
    /\ nextId = [recurring |-> 3, bills |-> 3, debts |-> 1, funds |-> 1,
                 vehicles |-> 1, vehicleMaintenance |-> 1, tx |-> 1]
    /\ lastOp = [op |-> None, ref |-> None, ym |-> None, writes |-> 0,
                 changed |-> FALSE, run |-> 0]

NextEnsure ==
    \/ \E c \in CallIds, kind \in {"recurring", "bills"} : EnsureStart(c, kind)
    \/ \E c \in DOMAIN calls : \E w \in calls[c].pending : EnsureWrite(c, w)
    \/ \E c \in DOMAIN calls : \E w \in calls[c].pending : EnsureWriteFails(c, w)
    \/ \E c \in CallIds : EnsureReturn(c)

SpecEnsure == InitEnsure /\ [][NextEnsure]_vars

\* the transactions generated for the item of the upsert w
GeneratedFor(w) ==
    {id \in DOMAIN tx :
        /\ Has(tx[id], "sourceMonth") /\ tx[id].sourceMonth = w.data.sourceMonth
        /\ tx[id].date = w.data.date
        /\ \/ /\ Has(tx[id], "recurringId") /\ Has(w.data, "recurringId")
              /\ tx[id].recurringId = w.data.recurringId
           \/ /\ Has(tx[id], "billId") /\ Has(w.data, "billId")
              /\ tx[id].billId = w.data.billId}

Quiet == calls = <<>> /\ lastOp.op = "ensure"

\* C17: two ensureRecurringForMonth(M) calls, and likewise two
\* ensureBillsForMonth(M) calls, whose upserts interleave in any order, with
\* rules, bills and cutoff unchanged, end in the same transactions as a
\* single call: one transaction per (rule or bill, date), no duplicates
EnsureCallsConverge ==
    (Quiet /\ lastOp.ref.failed = {}) =>
        /\ tx = EnsureOnce(lastOp.ref.kind, lastOp.ref.base, lastOp.ym)
        /\ \A w \in UpsertsOf(lastOp.ref.kind, lastOp.ym) :
               GeneratedFor(w) = {w.id}

EnsureCallsConvergeWitness ==
    /\ Quiet
    /\ lastOp.ref.failed = {}
    /\ lastOp.ref.overlap
    /\ lastOp.ref.started = 2
    /\ lastOp.ref.kind = "recurring"
    /\ lastOp.ref.base = EmptyDocs
    /\ Cardinality(DOMAIN tx) = 2

\* C18: if the upsert of one item fails in ensureRecurringForMonth or
\* ensureBillsForMonth, the upserts of the other eligible items are still
\* applied and the call returns the error; once a later call for the same
\* month has returned without failure, the transactions are those a
\* failure-free first run would have produced
FailedUpsertHeals ==
    (Quiet /\ lastOp.ref.failed # {}) =>
        LET good == EnsureOnce(lastOp.ref.kind, lastOp.ref.base, lastOp.ym)
        IN  /\ lastOp.ref.errors >= 1
            /\ \A w \in UpsertsOf(lastOp.ref.kind, lastOp.ym) :
                   w.id \notin lastOp.ref.failed =>
                       (w.id \in DOMAIN tx /\ tx[w.id] = good[w.id])
            /\ lastOp.ref.healed => tx = good

FailedUpsertHealsWitness ==
    /\ Quiet
    /\ lastOp.ref.failed # {}
    /\ lastOp.ref.healed
    /\ lastOp.ref.errors = 1
    /\ lastOp.ref.kind = "bills"
    /\ lastOp.ref.base = EmptyDocs
    /\ Cardinality(DOMAIN tx) = 2

(***************************************************************************)
(* recordDebtPaymentForMonth failing between its two writes               *)
(***************************************************************************)
\* the pay button of a row of the debts table when the store rejects the
\* updateDoc of the debt: the payment transaction is written, the error
\* leaves the handler through withLoading and nothing is reloaded
PayDebtFails(d) ==
    /\ d \in DOMAIN debts
    /\ ~DebtPaymentRecorded(tx, d, currentMonthYM)
    /\ LET t1 == setDocMerge(tx, debtPayTxDocId(d, currentMonthYM),
                             DebtPayTxData(d, debts[d], currentMonthYM, cutoffDay))
       IN  /\ Fits(t1)
           /\ tx' = t1
    /\ lastOp' = Ran("payDebtFailed", d, currentMonthYM, 1, TRUE)
    /\ UNCHANGED <<pureVars, setVars, ruleVars, debtVars, fundVars, vehVars,
                   currentTransactions, nextId>>

NextDebtFail ==
    \/ NextDebt
    \/ \E d \in DOMAIN debts : PayDebtFails(d)

SpecDebtFail == Init /\ [][NextDebtFail]_vars

\* C19: when recordDebtPayment(debtId, M) has failed after writing the
\* payment transaction and before updating the debt, re-invoking it repairs
\* the state: after the re-invocation the debt's currentBalance and
\* lastPaidMonth reflect the payment recorded for M
RetryRepairsDebt ==
    [][(/\ lastOp.op = "payDebtFailed"
        /\ lastOp'.op = "payDebt"
        /\ lastOp'.ref = lastOp.ref
        /\ lastOp'.ym = lastOp.ym)
       => LET d  == lastOp.ref
              id == debtPayTxDocId(d, lastOp.ym)
          IN  /\ Has(debtDocs'[d], "lastPaidMonth")
              /\ debtDocs'[d].lastPaidMonth = lastOp.ym
              /\ debtDocs'[d].currentBalance = tx'[id].balanceAfter]_vars

(***************************************************************************)
(* Every validating handler, on valid and invalid inputs                  *)
(***************************************************************************)
ValidRecurringInputs ==
    [type : {"income"}, category : {"Salary"}, amount : {500000}, day : {Num(10)},
     startMonth : {None, <<BaseYear, 12>>}, endMonth : {None},
     active : {TRUE}, labelled : BOOLEAN]

ValidDebtInputs ==
    [named : BOOLEAN, apr : {12}, balance : {0, 1200000}, monthly : {0, 110000},
     dueDay : {Num(5)}]

ValidFundInputs ==
    [named : BOOLEAN, goal : {0, 300000}, target : {None, <<BaseYear + 1, 1>>},
     saved : {0, 100000}]

NextValid ==
    \/ EntityCount < MaxEntities /\ \E inp \in ValidRecurringInputs : AddRecurring(inp)
    \/ EntityCount < MaxEntities /\ \E inp \in BillInputs : AddBill(inp)
    \/ EntityCount < MaxEntities /\ \E inp \in ValidDebtInputs : AddDebt(inp)
    \/ EntityCount < MaxEntities /\ \E inp \in ValidFundInputs : AddFund(inp)
    \/ EntityCount < MaxEntities /\ AddVehicle(OneVehicle)
    \/ \E inp \in TxInputs : SaveNewTx(inp)
    \/ \E id \in currentTransactions, inp \in TxInputs : SaveTx(id, inp)
    \/ \E f \in DOMAIN funds, amt \in {-5000, 0, 25000, 100000} : AddSaving(f, amt, Today)
    \/ \E v \in DOMAIN vehicles, cost \in {-5000, 0, 15000} :
          QuickLog(v, MaintItems[2], cost, Today)

SpecValid == Init /\ [][NextValid]_vars

\* every document stored has passed the validation of its handler
StoredInputsValid ==
    /\ \A r \in DOMAIN recurring : recurring[r].startMonth # None
    /\ \A b \in DOMAIN bills : bills[b].amount > 0
    /\ \A d \in DOMAIN debtDocs : debtDocs[d].monthlyPayment > 0
    /\ \A f \in DOMAIN fundDocs :
           fundDocs[f].goalAmount > 0 /\ fundDocs[f].targetMonth # None
    /\ \A id \in DOMAIN tx :
           /\ Has(tx[id], "date") => tx[id].date # None
           /\ Has(tx[id], "amount") => tx[id].amount > 0

calcMonthlyNeededNoFloor(f, nowYM) ==
    LET remaining  == Max(0, f.goalAmount - f.currentSaved)
        diff       == monthsBetweenYM(nowYM, f.targetMonth)
    IN  [num |-> remaining, den |-> diff + 1]

calcMonthlyNeeded(f, nowYM) ==
    LET remaining  == Max(0, f.goalAmount - f.currentSaved)
        diff       == monthsBetweenYM(nowYM, f.targetMonth)
        monthsLeft == Max(1, diff + 1)
    IN  [num |-> remaining, den |-> monthsLeft]

NeededGoals == {1000, 3000000}
NeededSaved == {-500, 0, 600000, 3000000, 4000000}
NeededMonths == Years \X (1 .. 12)

InitNeeded ==
    /\ args \in [goalAmount : NeededGoals, currentSaved : NeededSaved,
                 targetMonth : NeededMonths, nowYM : NeededMonths]
    /\ result = None
    /\ LedgerInit

CallCalcMonthlyNeeded ==
    /\ result = None
    /\ result' = << calcMonthlyNeeded(args, args.nowYM) >>
    /\ UNCHANGED <<args, calls, ledgerVars>>

NextNeeded == CallCalcMonthlyNeeded

SpecNeeded == InitNeeded /\ [][NextNeeded]_vars

\* the months from a to b, both included
MonthsThrough(a, b) == {m \in NeededMonths : ~YMLess(m, a) /\ ~YMLess(b, m)}

\* C21: calcMonthlyNeeded(fund) is what is left to the goal, or 0 when the
\* goal is reached, divided by the number of months from the current month
\* to the target month, both included, or by 1 when the target month is in
\* the past: the result is never negative and the divisor never below 1;
\* goalAmount 3000, currentSaved 600, current month 2024-01 and target month
\* 2024-07 give 2400/7
MonthlyNeededFormula ==
    result # None =>
        LET need == result[1]
            left == args.goalAmount - args.currentSaved
            span == Cardinality(MonthsThrough(args.nowYM, args.targetMonth))
        IN  /\ need.num = (IF left > 0 THEN left ELSE 0)
            /\ need.den = (IF YMLess(args.targetMonth, args.nowYM) THEN 1 ELSE span)
            /\ need.num >= 0
            /\ need.den >= 1
            /\ ( /\ args.goalAmount = 3000000 /\ args.currentSaved = 600000
                 /\ args.nowYM = <<2024, 1>> /\ args.targetMonth = <<2024, 7>> )
               => need.num * 7 = 2400000 * need.den

MonthlyNeededFormulaWitness ==
    /\ result # None
    /\ YMLess(args.targetMonth, args.nowYM)
    /\ args.currentSaved > args.goalAmount
    /\ result[1] = [num |-> 0, den |-> 1]

(***************************************************************************)
(* recomputeAllTxEffectiveMonths as a function of the stored transactions  *)
(* and the cutoff day, with the updatedAt stamp of its writes (the ledger  *)
(* above leaves the stamps out)                                            *)
(***************************************************************************)
MaxRecomputeTx == 2

\* the data of the updateDoc issued for document id
RecomputeData(txs, id, cutoff, now) ==
    [effectiveMonth |-> computeEffectiveMonth(txs[id].date, cutoff), updatedAt |-> now]

\* a write that replaces the document instead of updating two fields
recomputeStampedReplacing(txs, cutoff, now) ==
    [id \in DOMAIN txs |->
        IF id \in RecomputeUpdates(txs, cutoff)
        THEN RecomputeData(txs, id, cutoff, now)
        ELSE txs[id]]

recomputeStamped(txs, cutoff, now) ==
    [id \in DOMAIN txs |->
        IF id \in RecomputeUpdates(txs, cutoff)
        THEN MergeFields(txs[id], RecomputeData(txs, id, cutoff, now))
        ELSE txs[id]]

\* Date.now() of an earlier write and of this run
StampOld == "old"
StampNow == "now"

\* stored transactions: dated with a stored effective month, dated without
\* one, with an empty date, and without a date field
RecomputeDocs ==
    [date : {None, <<BaseYear, 12, 5>>, <<BaseYear, 12, 25>>},
     effectiveMonth : {<<BaseYear, 12>>, <<BaseYear + 1, 1>>},
     amount : {1000}, updatedAt : {StampOld}]
    \cup [date : {<<BaseYear, 12, 25>>}, amount : {1000}, updatedAt : {StampOld}]
    \cup [amount : {1000}, updatedAt : {StampOld}]

RecomputeCutoffs == {MinDay, 5, 6, 25, 26, MaxDay}

InitRecompute ==
    /\ args \in [txs : [1 .. MaxRecomputeTx -> RecomputeDocs], cutoffDay : RecomputeCutoffs]
    /\ result = None
    /\ LedgerInit

CallRecompute ==
    /\ result = None
    /\ result' = << recomputeStamped(args.txs, args.cutoffDay, StampNow) >>
    /\ UNCHANGED <<args, calls, ledgerVars>>

NextRecompute == CallRecompute

SpecRecompute == InitRecompute /\ [][NextRecompute]_vars

\* document id carries the stamp of this run
RecomputeWrote(id) == result[1][id].updatedAt = StampNow

\* the stored effective month of d is not the one of its date
RecomputeStale(d, cutoff) ==
    /\ Has(d, "date")
    /\ d.date # None
    /\ Has(d, "effectiveMonth") => d.effectiveMonth # computeEffectiveMonth(d.date, cutoff)

\* C22: recomputeAllTxEffectiveMonths writes exactly the transactions that
\* have a date and whose stored effectiveMonth differs from
\* computeEffectiveMonth(date, cutoffDay); every other transaction, already
\* correct or without a date, is not written, and on the written ones only
\* effectiveMonth and updatedAt change
RecomputeWritesOnlyStale ==
    result # None =>
        /\ DOMAIN result[1] = DOMAIN args.txs
        /\ \A id \in DOMAIN args.txs :
              LET old == args.txs[id]
                  new == result[1][id]
              IN  /\ RecomputeWrote(id) <=> RecomputeStale(old, args.cutoffDay)
                  /\ ~RecomputeWrote(id) => new = old
                  /\ RecomputeWrote(id) =>
                        /\ new.effectiveMonth = computeEffectiveMonth(old.date, args.cutoffDay)
                        /\ DOMAIN new = DOMAIN old \cup {"effectiveMonth", "updatedAt"}
                        /\ \A f \in DOMAIN old \ {"effectiveMonth", "updatedAt"} :
                              new[f] = old[f]

RecomputeWritesOnlyStaleWitness ==
    /\ result # None
    /\ RecomputeWrote(1)
    /\ ~RecomputeWrote(2)
    /\ Has(args.txs[2], "date")
    /\ args.txs[2].date # None
    /\ args.txs[1].effectiveMonth # result[1][1].effectiveMonth

(***************************************************************************)
(* ensureRecurringForMonth and ensureBillsForMonth as functions of the     *)
(* cached rules and bills, the month and the cutoff day                    *)
(***************************************************************************)
MaxEnsureItems == 1

EnsureMonths == {<<BaseYear, 11>>, <<BaseYear, 12>>, <<BaseYear + 1, 1>>}

\* the rules loadRecurring caches: dayOfMonth is clamped to 1..28 there
EnsureRuleRecords ==
    [type : {"income"}, category : {"Salary"}, amount : {500000}, dayOfMonth : {1, 28},
     startMonth : {None, <<BaseYear, 12>>},
     endMonth : {None, <<BaseYear, 12>>, <<BaseYear + 1, 1>>},
     active : BOOLEAN]

\* the bills loadBills caches: dueDay is clamped to 1..28 there and active
\* is false for a stored document with active: false
EnsureBillRecords ==
    [name : {"Rent"}, amount : {120000}, dueDay : {1, 28}, active : BOOLEAN]

InitEnsureFn ==
    /\ args \in [rules : [1 .. MaxEnsureItems -> EnsureRuleRecords],
                 bills : [1 .. MaxEnsureItems -> EnsureBillRecords],
                 ym : EnsureMonths, cutoffDay : {DefaultCutoffDay, MaxDay}]
    /\ result = None
    /\ LedgerInit

CallEnsureForMonth ==
    /\ result = None
    /\ result' = << [recurringWrites |-> RecurringUpserts(args.rules, args.ym, args.cutoffDay),
                     billWrites |-> BillUpserts(args.bills, args.ym, args.cutoffDay),
                     recurringTx |-> ensureRecurringForMonth(EmptyDocs, args.rules, args.ym,
                                                             args.cutoffDay),
                     billTx |-> ensureBillsForMonth(EmptyDocs, args.bills, args.ym,
                                                    args.cutoffDay)] >>
    /\ UNCHANGED <<args, calls, ledgerVars>>

NextEnsureFn == CallEnsureForMonth

SpecEnsureFn == InitEnsureFn /\ [][NextEnsureFn]_vars

\* C23: ensureRecurringForMonth(M) writes a transaction for a rule iff the
\* rule is active, has a startMonth, M >= startMonth and endMonth is absent
\* or M <= endMonth; inactive or out-of-range rules cause no write.
\* ensureBillsForMonth(M) writes one transaction of type 'expense' per active
\* bill, dated (M, dueDay clamped to 1..28), and none for inactive bills
EnsureWritesForCoveredOnly ==
    result # None =>
        LET res == result[1]
            M   == args.ym
            covered(r) ==
                /\ args.rules[r].active
                /\ args.rules[r].startMonth # None
                /\ ~YMLess(M, args.rules[r].startMonth)
                /\ args.rules[r].endMonth = None \/ ~YMLess(args.rules[r].endMonth, M)
            ruleWrites(r) == {w \in res.recurringWrites : w.data.recurringId = r}
            billWrites(b) == {w \in res.billWrites : w.data.billId = b}
            ruleTx(r) == {id \in DOMAIN res.recurringTx : res.recurringTx[id].recurringId = r}
            billTx(b) == {id \in DOMAIN res.billTx : res.billTx[id].billId = b}
        IN  /\ \A r \in DOMAIN args.rules :
                  /\ Cardinality(ruleWrites(r)) = (IF covered(r) THEN 1 ELSE 0)
                  /\ Cardinality(ruleTx(r)) = (IF covered(r) THEN 1 ELSE 0)
            /\ \A w \in res.recurringWrites : w.data.recurringId \in DOMAIN args.rules
            /\ \A b \in DOMAIN args.bills :
                  /\ Cardinality(billWrites(b)) = (IF args.bills[b].active THEN 1 ELSE 0)
                  /\ Cardinality(billTx(b)) = (IF args.bills[b].active THEN 1 ELSE 0)
                  /\ \A w \in billWrites(b) :
                        /\ w.data.type = "expense"
                        /\ w.data.date = <<M[1], M[2], Max(1, Min(28, args.bills[b].dueDay))>>
                        /\ res.billTx[w.id] = w.data
            /\ \A w \in res.billWrites : w.data.billId \in DOMAIN args.bills

EnsureWritesForCoveredOnlyWitness ==
    /\ result # None
    /\ args.rules[1].active
    /\ args.rules[1].startMonth # None
    /\ args.rules[1].endMonth # None
    /\ args.rules[1].endMonth = <<BaseYear, 12>>
    /\ args.ym = <<BaseYear + 1, 1>>
    /\ result[1].recurringWrites = {}
    /\ args.bills[1].active
    /\ result[1].billWrites # {}

(***************************************************************************)
(* buildMonthlyRows on names that differ in letter case and surrounding    *)
(* blanks and on types other than income and expense                       *)
(***************************************************************************)
KeyPlanNames == {<<"  ", "">>, <<"Food", "Meal">>, <<" Food ", "Meal">>, <<"Other", "Other">>}

KeyPlanItems ==
    {[group |-> n[1], category |-> n[2], type |-> t, planned |-> 300000] :
        n \in KeyPlanNames, t \in {"expense", "income", "transfer"}}

KeyTxNames == {<<"", "">>, <<"food", "Meal">>, <<"  ", "Other">>}

KeyTxItems ==
    {[group |-> n[1], category |-> n[2], type |-> t, amount |-> 200000] :
        n \in KeyTxNames, t \in {"income", "transfer"}}

InitMonthlyKeys ==
    /\ args \in [plan : SeqsUpTo(KeyPlanItems, MaxPlanItems),
                 txs : SeqsUpTo(KeyTxItems, MaxMonthTx)]
    /\ result = None
    /\ LedgerInit

NextMonthlyKeys == CallBuildMonthlyRows

SpecMonthlyKeys == InitMonthlyKeys /\ [][NextMonthlyKeys]_vars

\* a name without surrounding blanks and in lower case
Folded(s) == toLowerCase(trim(s))

IncomeOrExpense(t) == IF t = "income" THEN "income" ELSE "expense"

PlanKey(p) == <<Folded(p.group), Folded(p.category), IncomeOrExpense(p.type)>>

PlanItemCounts(p) == trim(p.group) # "" \/ trim(p.category) # ""

TxKey(t) ==
    <<IF trim(t.group) = "" THEN "other" ELSE Folded(t.group),
      IF trim(t.category) = "" THEN "other" ELSE Folded(t.category),
      IncomeOrExpense(t.type)>>

RowKey(r) == <<Folded(r.group), Folded(r.category), r.type>>

RECURSIVE PlannedFor(_, _, _)
PlannedFor(plan, key, i) ==
    IF i > Len(plan) THEN 0
    ELSE (IF PlanItemCounts(plan[i]) /\ PlanKey(plan[i]) = key THEN plan[i].planned ELSE 0)
         + PlannedFor(plan, key, i + 1)

RECURSIVE ActualFor(_, _, _)
ActualFor(txs, key, i) ==
    IF i > Len(txs) THEN 0
    ELSE (IF TxKey(txs[i]) = key THEN txs[i].amount ELSE 0) + ActualFor(txs, key, i + 1)

\* C24: buildMonthlyRows yields exactly one row per distinct normalized
\* (group, category, type) key (trimmed, case-insensitive) occurring among
\* the plan items that have a group or a category and the transactions
\* (empty group or category replaced by 'Other', any type other than
\* 'income' treated as 'expense'); a row's planned is the sum of planned
\* over the plan items with that key and its actual is the sum of amount
\* over the transactions with that key, so a plan item and a transaction
\* that differ only in letter case or surrounding blanks share one row
OneRowPerNormalizedKey ==
    result # None =>
        LET rows == result[1]
            keys == {PlanKey(args.plan[i]) :
                        i \in {j \in 1 .. Len(args.plan) : PlanItemCounts(args.plan[j])}}
                    \cup {TxKey(args.txs[i]) : i \in 1 .. Len(args.txs)}
        IN  /\ {RowKey(rows[i]) : i \in 1 .. Len(rows)} = keys
            /\ Len(rows) = Cardinality(keys)
            /\ \A i \in 1 .. Len(rows) :
                  /\ rows[i].planned = PlannedFor(args.plan, RowKey(rows[i]), 1)
                  /\ rows[i].actual = ActualFor(args.txs, RowKey(rows[i]), 1)

OneRowPerNormalizedKeyWitness ==
    /\ result # None
    /\ Len(args.plan) = 2
    /\ Len(args.txs) = 2
    /\ args.plan[1].group = " Food "
    /\ args.plan[2].group = "Food"
    /\ args.txs[1].group = "food"
    /\ args.txs[2].group = ""
    /\ args.plan[1].type = "transfer"
    /\ args.plan[2].type = "expense"
    /\ args.txs[1].type = "transfer"
    /\ Len(result[1]) = 2
    /\ \E i \in 1 .. 2 : result[1][i].planned = 600000 /\ result[1][i].actual = 200000

(***************************************************************************)
(* Logs of a maintenance item: quick logs and full service logs whose      *)
(* service type names an item                                              *)
(***************************************************************************)
ItemLogInputs ==
    [date : {<<BaseYear, 12, 5>>}, mileage : {Num(61000)}, cost : {15000},
     item : {None, MaintItems[2]}]

NextVehLog ==
    \/ \E inp \in VehicleInputs : AddVehicle(inp)
    \/ \E v \in DOMAIN vehicles, inp \in ItemLogInputs : AddServiceLog(v, inp)
    \/ \E v \in DOMAIN vehicles, i \in DOMAIN MaintItems, today \in TodayDates :
          QuickLog(v, MaintItems[i], 15000, today)
    \/ \E v \in DOMAIN vehicles, m \in MileageInputs : LogMileage(v, m)

SpecVehLog == Init /\ [][NextVehLog]_vars

\* the log just made is of a maintenance item
ItemJustLogged == lastOp.op = "vehicleLog" /\ lastOp.ref[4] # None

\* C25: after an item is logged for a vehicle, whether by quick-log
\* (logMaintenanceQuick) or by a full service log (addServiceLogPrompt), the
\* (vehicle, item) maintenance config's lastDoneDate and lastDoneMileage
\* equal the date and mileage of that log
LoggedItemIsLastDone ==
    ItemJustLogged =>
        \A c \in ConfigsOf(vehicleMaintenance, lastOp.ref[1], lastOp.ref[4]) :
            /\ vehicleMaintenance[c].lastDoneDate = lastOp.ref[3]
            /\ vehicleMaintenance[c].lastDoneMileage = Num(lastOp.ref[2])

(***************************************************************************)
(* Vehicle creation and loadVehicles with their awaits: the read of the    *)
(* vehicles, the read of a vehicle's configs and every addDoc of a config  *)
(* are steps of their own, and calls may be in flight together             *)
(***************************************************************************)
\* the first item from index i on whose code is not among the codes read
RECURSIVE NextMissingItem(_, _)
NextMissingItem(existingCodes, i) ==
    IF i > Len(MaintItems) \/ MaintItems[i] \notin existingCodes THEN i
    ELSE NextMissingItem(existingCodes, i + 1)

\* the call c goes on with frame, or is over
VehKeep(c, frame) == IF frame.pc = "done" THEN Remove(calls, c) ELSE Put(calls, c, frame)

\* where a call goes when ensureVehicleMaintenanceDefaults has returned: the
\* add handler to loadVehicles, loadVehicles to its next vehicle or its end
AfterEnsure(frame) ==
    IF frame.stage = "add" THEN [frame EXCEPT !.stage = "load", !.pc = "loadVehicles"]
    ELSE IF frame.rest = {} THEN [frame EXCEPT !.pc = "done"]
    ELSE LET v == CHOOSE x \in frame.rest : \A y \in frame.rest : x <= y
         IN  [frame EXCEPT !.vehicle = v, !.rest = @ \ {v}, !.pc = "getDocs"]

\* btnAddVehicle up to the await of ensureVehicleMaintenanceDefaults: the
\* vehicle is stored
VehicleAddStart(c, inp) ==
    /\ c \notin DOMAIN calls
    /\ inp.named
    /\ nextId.vehicles <= MaxVehicles
    /\ vehicleDocs' = Put(vehicleDocs, nextId.vehicles,
                          [currentMileage |-> inp.mileage, active |-> TRUE])
    /\ nextId' = [nextId EXCEPT !.vehicles = @ + 1]
    /\ calls' = Put(calls, c,
                    [op |-> "vehicles", origin |-> "add", stage |-> "add", pc |-> "getDocs",
                     vehicle |-> nextId.vehicles, rest |-> {}, existingCodes |-> {}, i |-> 1])
    /\ lastOp' = Other
    /\ UNCHANGED <<args, result, setVars, ruleVars, debtVars, fundVars, vehicles,
                   vehicleMaintenance, tx, currentTransactions>>

\* btnRefreshVehicles, or the loadVehicles of another handler
VehicleLoadStart(c) ==
    /\ c \notin DOMAIN calls
    /\ calls' = Put(calls, c,
                    [op |-> "vehicles", origin |-> "refresh", stage |-> "load",
                     pc |-> "loadVehicles", vehicle |-> 0, rest |-> {},
                     existingCodes |-> {}, i |-> 1])
    /\ lastOp' = Other
    /\ UNCHANGED <<args, result, ledgerVars>>

\* loadVehicles: await getDocs(vehiclesCol), the cache is replaced and the
\* loop over the vehicles read begins
VehicleLoadRead(c) ==
    /\ c \in DOMAIN calls
    /\ calls[c].op = "vehicles"
    /\ calls[c].pc = "loadVehicles"
    /\ vehicles' = loadVehicles(vehicleDocs)
    /\ calls' = VehKeep(c, AfterEnsure([calls[c] EXCEPT !.rest = DOMAIN vehicleDocs]))
    /\ IF DOMAIN vehicleDocs = {} /\ calls[c].origin = "add"
       THEN LoadMonthData(tx, currentMonthYM)
       ELSE UNCHANGED currentTransactions
    /\ lastOp' = Other
    /\ UNCHANGED <<args, result, setVars, ruleVars, debtVars, fundVars, vehicleDocs,
                   vehicleMaintenance, tx, nextId>>

\* ensureVehicleMaintenanceDefaults: await getDocs(query on the vehicle);
\* the codes read decide which items the loop adds
VehicleEnsureRead(c) ==
    /\ c \in DOMAIN calls
    /\ calls[c].op = "vehicles"
    /\ calls[c].pc = "getDocs"
    /\ LET codes == {vehicleMaintenance[k].itemCode :
                        k \in {x \in DOMAIN vehicleMaintenance :
                                  vehicleMaintenance[x].vehicleId = calls[c].vehicle}}
           first == NextMissingItem(codes, 1)
           frame == [calls[c] EXCEPT !.existingCodes = codes, !.i = first, !.pc = "addDoc"]
           after == IF first > Len(MaintItems) THEN AfterEnsure(frame) ELSE frame
       IN  /\ calls' = VehKeep(c, after)
           /\ IF after.pc = "done" /\ calls[c].origin = "add"
              THEN LoadMonthData(tx, currentMonthYM)
              ELSE UNCHANGED currentTransactions
    /\ lastOp' = Other
    /\ UNCHANGED <<args, result, setVars, ruleVars, debtVars, fundVars, vehVars, tx, nextId>>

\* ensureVehicleMaintenanceDefaults: await addDoc(vehicleMaintCol, ...) for
\* the item the loop is at
VehicleEnsureAdd(c) ==
    /\ c \in DOMAIN calls
    /\ calls[c].op = "vehicles"
    /\ calls[c].pc = "addDoc"
    /\ LET code  == MaintItems[calls[c].i]
           next  == NextMissingItem(calls[c].existingCodes, calls[c].i + 1)
           frame == [calls[c] EXCEPT !.i = next]
           after == IF next > Len(MaintItems) THEN AfterEnsure(frame) ELSE frame
       IN  /\ vehicleMaintenance' =
                  Put(vehicleMaintenance, nextId.vehicleMaintenance,
                      [vehicleId |-> calls[c].vehicle, itemCode |-> code,
                       intervalKm |-> DefaultIntervalKm(code),
                       intervalMonths |-> DefaultIntervalMonths(code),
                       lastDoneMileage |-> Null, lastDoneDate |-> Null, active |-> TRUE])
           /\ nextId' = [nextId EXCEPT !.vehicleMaintenance = @ + 1]
           /\ calls' = VehKeep(c, after)
           /\ IF after.pc = "done" /\ calls[c].origin = "add"
              THEN LoadMonthData(tx, currentMonthYM)
              ELSE UNCHANGED currentTransactions
    /\ lastOp' = Other
    /\ UNCHANGED <<args, result, setVars, ruleVars, debtVars, fundVars, vehicleDocs,
                   vehicles, tx>>

NextVehAsync ==
    \/ \E c \in CallIds, inp \in VehicleInputs : VehicleAddStart(c, inp)
    \/ \E c \in CallIds : VehicleLoadStart(c)
    \/ \E c \in CallIds : VehicleLoadRead(c)
    \/ \E c \in CallIds : VehicleEnsureRead(c)
    \/ \E c \in CallIds : VehicleEnsureAdd(c)

SpecVehAsync == Init /\ [][NextVehAsync]_vars

\* C26: in every reachable state there is at most one vehicleMaintenance
\* config document per (vehicleId, itemCode) pair, after any sequence and
\* interleaving of vehicle creation and loadVehicles runs
OneConfigPerVehicleItem ==
    \A a, b \in DOMAIN vehicleMaintenance :
        (/\ vehicleMaintenance[a].vehicleId = vehicleMaintenance[b].vehicleId
         /\ vehicleMaintenance[a].itemCode = vehicleMaintenance[b].itemCode) => a = b

(***************************************************************************)
(* 'Pay this month' with its awaits: the existence check, the write of the *)
(* payment transaction, the update of the debt and the reloads are steps   *)
(* of their own, and two handlers may be in flight together                *)
(***************************************************************************)
AsyncDebtInputs ==
    [named : {TRUE}, apr : {12}, balance : {100000, 1200000}, monthly : {10000, 110000},
     dueDay : {Num(5)}]

\* the debt object a call computes from, taken from the cache as it is now
PayDebtObjectFromCache(c) == debts[calls[c].debtId]

\* const debt = debts.find(...): the object taken from the cache at the start
PayDebtObject(c) == calls[c].debt

\* two calls for (d, ym) have both passed the existence check before either
\* has written; base is the debt object they compute from
PayRace(d, ym, base) ==
    [op |-> "payRace", ref |-> [debtId |-> d, base |-> base], ym |-> ym,
     writes |-> 0, changed |-> FALSE, run |-> 0]

\* the click and recordDebtPaymentForMonth up to await getDoc(txDoc)
PayStart(c, d) ==
    /\ c \notin DOMAIN calls
    /\ d \in DOMAIN debts
    /\ calls' = Put(calls, c,
                    [op |-> "payDebt", pc |-> "getDoc", debtId |-> d,
                     ym |-> currentMonthYM, debt |-> debts[d]])
    /\ lastOp' = IF calls = <<>> THEN Other ELSE lastOp
    /\ UNCHANGED <<args, result, setVars, ruleVars, debtVars, fundVars, vehVars, txVars>>

\* getDoc returns: 'Already recorded' and return, or go on to the writes
PayGetDoc(c) ==
    /\ c \in DOMAIN calls
    /\ calls[c].op = "payDebt"
    /\ calls[c].pc = "getDoc"
    /\ LET d      == calls[c].debtId
           ym     == calls[c].ym
           exists == DebtPaymentRecorded(tx, d, ym)
           others == {o \in DOMAIN calls \ {c} :
                         /\ calls[o].op = "payDebt" /\ calls[o].pc = "setDoc"
                         /\ calls[o].debtId = d /\ calls[o].ym = ym}
       IN  /\ calls' = [calls EXCEPT ![c].pc = IF exists THEN "loadDebts" ELSE "setDoc"]
           /\ lastOp' = IF ~exists /\ others # {} THEN PayRace(d, ym, calls[c].debt)
                        ELSE lastOp
    /\ UNCHANGED <<args, result, setVars, ruleVars, debtVars, fundVars, vehVars, txVars>>

\* await setDoc(txDoc, ..., { merge: true })
PaySetDoc(c) ==
    /\ c \in DOMAIN calls
    /\ calls[c].op = "payDebt"
    /\ calls[c].pc = "setDoc"
    /\ LET t1 == setDocMerge(tx, debtPayTxDocId(calls[c].debtId, calls[c].ym),
                             DebtPayTxData(calls[c].debtId, PayDebtObject(c), calls[c].ym,
                                           cutoffDay))
       IN  /\ Fits(t1)
           /\ tx' = t1
    /\ calls' = [calls EXCEPT ![c].pc = "updateDoc"]
    /\ UNCHANGED <<args, result, setVars, ruleVars, debtVars, fundVars, vehVars,
                   currentTransactions, nextId, lastOp>>

\* await updateDoc(debt, { currentBalance, lastPaidMonth })
PayUpdateDoc(c) ==
    /\ c \in DOMAIN calls
    /\ calls[c].op = "payDebt"
    /\ calls[c].pc = "updateDoc"
    /\ debtDocs' = updateDoc(debtDocs, calls[c].debtId,
                       [currentBalance |-> toFixed2(DebtNewBalance(PayDebtObject(c)), RateDen),
                        lastPaidMonth |-> calls[c].ym])
    /\ calls' = [calls EXCEPT ![c].pc = "loadDebts"]
    /\ UNCHANGED <<args, result, setVars, ruleVars, debts, prevBalance, payments, fundVars,
                   vehVars, txVars, lastOp>>

\* await loadDebts()
PayLoadDebts(c) ==
    /\ c \in DOMAIN calls
    /\ calls[c].op = "payDebt"
    /\ calls[c].pc = "loadDebts"
    /\ debts' = loadDebts(debtDocs)
    /\ calls' = [calls EXCEPT ![c].pc = "loadMonthData"]
    /\ UNCHANGED <<args, result, setVars, ruleVars, debtDocs, prevBalance, payments,
                   fundVars, vehVars, txVars, lastOp>>

\* await applyAutoStuffForMonth(currentMonthYM); await loadMonthData(); the
\* handler is done
PayLoadMonthData(c) ==
    /\ c \in DOMAIN calls
    /\ calls[c].op = "payDebt"
    /\ calls[c].pc = "loadMonthData"
    /\ LET t1 == applyAutoStuffForMonth(tx, recurring, bills, currentMonthYM, cutoffDay)
       IN  /\ Fits(t1)
           /\ tx' = t1
           /\ LoadMonthData(t1, currentMonthYM)
    /\ calls' = Remove(calls, c)
    /\ UNCHANGED <<args, result, setVars, ruleVars, debtVars, fundVars, vehVars, nextId,
                   lastOp>>

\* debts are added and the month is changed while no call is in flight
NextDebtAsync ==
    \/ calls = <<>> /\ \E inp \in AsyncDebtInputs : AddDebt(inp)
    \/ calls = <<>> /\ \E m \in Months : MonthPickerChange(m)
    \/ \E c \in CallIds, d \in DOMAIN debts : PayStart(c, d)
    \/ \E c \in CallIds : PayGetDoc(c)
    \/ \E c \in CallIds : PaySetDoc(c)
    \/ \E c \in CallIds : PayUpdateDoc(c)
    \/ \E c \in CallIds : PayLoadDebts(c)
    \/ \E c \in CallIds : PayLoadMonthData(c)

SpecDebtAsync == Init /\ [][NextDebtAsync]_vars

\* the payment transactions stored for debt d and month ym
DebtPaymentsOf(d, ym) ==
    {id \in DOMAIN tx :
        /\ Has(tx[id], "isDebtPayment")
        /\ tx[id].debtId = d
        /\ tx[id].month = ym}

\* C27: two recordDebtPayment(debtId, M) calls of one session that
\* interleave so that both pass the existence check before either writes
\* both write the same payment transaction and the same new balance (each
\* computes from the debt object read from the cache at its start), so the
\* final state holds one payment transaction for (debt, M) and
\* currentBalance reduced by one payment only
RacingPaymentsWriteOnce ==
    lastOp.op = "payRace" =>
        LET d    == lastOp.ref.debtId
            ym   == lastOp.ym
            base == lastOp.ref.base
            once == toFixed2(DebtNewBalance(base), RateDen)
        IN  /\ \A c \in DOMAIN calls :
                  (calls[c].debtId = d /\ calls[c].ym = ym
                   /\ calls[c].pc \in {"setDoc", "updateDoc"}) =>
                      /\ DebtPayTxData(d, PayDebtObject(c), ym, cutoffDay)
                            = DebtPayTxData(d, base, ym, cutoffDay)
                      /\ toFixed2(DebtNewBalance(PayDebtObject(c)), RateDen) = once
            /\ debtDocs[d].currentBalance \in {base.currentBalance, once}
            /\ calls = <<>> =>
                  /\ Cardinality(DebtPaymentsOf(d, ym)) = 1
                  /\ tx[debtPayTxDocId(d, ym)] = DebtPayTxData(d, base, ym, cutoffDay)
                  /\ debtDocs[d].currentBalance = once
                  /\ debtDocs[d].lastPaidMonth = ym

RacingPaymentsWriteOnceWitness ==
    /\ lastOp.op = "payRace"
    /\ calls = <<>>
    /\ lastOp.ref.base.currentBalance = 1200000
    /\ debtDocs[lastOp.ref.debtId].currentBalance = 1102000
    /\ Cardinality(DebtPaymentsOf(lastOp.ref.debtId, lastOp.ym)) = 1

(***************************************************************************)
(* Generated transactions after the user has edited or deleted them        *)
(***************************************************************************)
\* what the user types into the row of a generated transaction: the values
\* OneRule gives it, with another date, type, category or amount
RuleRow ==
    [date |-> <<BaseYear, 12, 10>>, type |-> "income", category |-> "Salary",
     amount |-> 500000]

EditInputs ==
    {[RuleRow EXCEPT !.date = <<BaseYear, 12, 24>>],
     [RuleRow EXCEPT !.type = "expense"],
     [RuleRow EXCEPT !.category = "Groceries"],
     [RuleRow EXCEPT !.amount = 4200]}

NextReassert ==
    \/ \E m \in Months : MonthPickerChange(m)
    \/ \E raw \in CutoffInputs : CutoffDayChange(raw)
    \/ AddRecurring(OneRule)
    \/ \E r \in DOMAIN recurring, a \in BOOLEAN : SetRecurringActive(r, a)
    \/ ApplyRecurring
    \/ AddBill(OneBill)
    \/ ApplyBills
    \/ \E id \in currentTransactions, inp \in EditInputs : SaveTx(id, inp)
    \/ \E id \in currentTransactions : DeleteTx(id)

SpecReassert == Init /\ [][NextReassert]_vars

\* the transaction dated dateISO is stored under id with the given
\* values of its source
CarriesSource(id, dateISO, type, category, amount) ==
    /\ id \in DOMAIN tx
    /\ tx[id].date = dateISO
    /\ tx[id].type = type
    /\ tx[id].category = category
    /\ tx[id].amount = amount

\* every active rule that covers the active month has its transaction
RecurringReasserted ==
    \A r \in DOMAIN recurring :
        RuleCovers(r, currentMonthYM) =>
            LET dateISO == dateFromYMDay(currentMonthYM, recurring[r].dayOfMonth)
            IN  CarriesSource(recurringTxDocId(r, dateISO), dateISO, recurring[r].type,
                              recurring[r].category, recurring[r].amount)

\* every active bill has its transaction of the active month
BillsReasserted ==
    \A b \in DOMAIN bills :
        bills[b].active =>
            LET dateISO == dateFromYMDay(currentMonthYM, bills[b].dueDay)
            IN  CarriesSource(billTxDocId(b, dateISO), dateISO, "expense",
                              bills[b].name, bills[b].amount)

\* the steps of a month switch, of a cutoff change, and of the two apply
\* buttons, which run ensureRecurringForMonth or ensureBillsForMonth
MonthSwitched == lastOp'.op = "other" /\ \E m \in Months : MonthPickerChange(m)
CutoffChanged == lastOp'.op = "cutoffDay" /\ \E raw \in CutoffInputs : CutoffDayChange(raw)
RecurringApplied == lastOp'.op = "applyRecurring" /\ ApplyRecurring
BillsApplied == lastOp'.op = "other" /\ ApplyBills

EnsuresRecurring == MonthSwitched \/ CutoffChanged \/ RecurringApplied
EnsuresBills == MonthSwitched \/ CutoffChanged \/ BillsApplied

\* C28: whatever the user has deleted or edited in the rows of generated
\* transactions, a month switch, a cutoff change or an apply leaves, for the
\* month it ran for, every active rule that covers the month and every
\* active bill with its transaction under the deterministic id, carrying
\* the date, type, category and amount of its source
GeneratedTxReasserted ==
    [][/\ EnsuresRecurring => RecurringReasserted'
       /\ EnsuresBills => BillsReasserted']_vars

\* an apply that had to write: the rule's transaction had been deleted or
\* edited, and is back with the rule's values
GeneratedTxReassertedWitness ==
    /\ lastOp.op = "applyRecurring"
    /\ lastOp.changed
    /\ \E r \in DOMAIN recurring : RuleCovers(r, currentMonthYM)
    /\ RecurringReasserted

(***************************************************************************)
(* The date and the bucket of a generated transaction                      *)
(***************************************************************************)
\* rules on the 10th and on the 25th, the default cutoff day
DatedRuleInputs ==
    [type : {"income"}, category : {"Salary"}, amount : {500000},
     day : {Num(10), Num(DefaultCutoffDay)},
     startMonth : {<<BaseYear, 12>>}, endMonth : {None},
     active : {TRUE}, labelled : {TRUE}]

NextDated ==
    \/ \E m \in Months : MonthPickerChange(m)
    \/ \E raw \in CutoffInputs : CutoffDayChange(raw)
    \/ \E inp \in DatedRuleInputs : AddRecurring(inp)
    \/ \E r \in DOMAIN recurring, a \in BOOLEAN : SetRecurringActive(r, a)
    \/ ApplyRecurring
    \/ AddBill(OneBill)
    \/ ApplyBills
    \/ \E id \in currentTransactions : DeleteTx(id)

SpecDated == Init /\ [][NextDated]_vars

\* the transactions generated from the stored rules and bills
RuleTxs == {id \in DOMAIN tx : Has(tx[id], "recurringId") /\ tx[id].recurringId \in DOMAIN recurring}
BillTxs == {id \in DOMAIN tx : Has(tx[id], "billId") /\ tx[id].billId \in DOMAIN bills}

\* dated on day d of its source month, in the bucket of that month when
\* d < cutoffDay and of the next month otherwise
DatedAndBucketed(t, d) ==
    /\ t.date = <<t.sourceMonth[1], t.sourceMonth[2], d>>
    /\ t.effectiveMonth = IF d < cutoffDay THEN t.sourceMonth
                          ELSE addMonthsYM(t.sourceMonth, 1)

\* a transaction of a source with d >= cutoffDay that is in the bucket of
\* month ym was generated for the month before
LateFromMonthBefore(t, d, ym) ==
    (d >= cutoffDay /\ t.effectiveMonth = ym) => t.sourceMonth = addMonthsYM(ym, -1)

\* C29: the transaction generated for month M from a rule with dayOfMonth
\* d, or a bill with dueDay d, is dated on day d of M and has effectiveMonth
\* M when d < cutoffDay and M + 1 when d >= cutoffDay; so a transaction of
\* a source with d >= cutoffDay that is in the bucket of a month was
\* generated for the month before it
GeneratedTxDatedAndBucketed ==
    /\ \A id \in RuleTxs :
          LET d == recurring[tx[id].recurringId].dayOfMonth
          IN  /\ DatedAndBucketed(tx[id], d)
              /\ \A ym \in NeededMonths : LateFromMonthBefore(tx[id], d, ym)
    /\ \A id \in BillTxs :
          LET d == bills[tx[id].billId].dueDay
          IN  /\ DatedAndBucketed(tx[id], d)
              /\ \A ym \in NeededMonths : LateFromMonthBefore(tx[id], d, ym)

\* 'Apply recurring' has run for the later month with a rule on or after the
\* cutoff day: the month's own transaction is in the next bucket, and the
\* one shown in the month is that of the month before
GeneratedTxDatedAndBucketedWitness ==
    /\ lastOp.op = "applyRecurring"
    /\ currentMonthYM = <<BaseYear + 1, 1>>
    /\ \E r \in DOMAIN recurring :
          /\ recurring[r].active
          /\ recurring[r].dayOfMonth >= cutoffDay
          /\ \E id \in RuleTxs :
                /\ tx[id].recurringId = r
                /\ tx[id].sourceMonth = currentMonthYM
                /\ tx[id].effectiveMonth = addMonthsYM(currentMonthYM, 1)
          /\ \E id \in currentTransactions \cap RuleTxs :
                /\ tx[id].recurringId = r
                /\ tx[id].sourceMonth = <<BaseYear, 12>>

(***************************************************************************)
(* The mileage of the last service and the mileage of the vehicle          *)
(***************************************************************************)
vehicleLogTxDocId(vehicleId, itemCode, dateISO) == <<"vehlog", vehicleId, <<itemCode, dateISO>>>>

\* addServiceLogPrompt of the second variant, called with an item code:
\* inp: [date, mileage, cost, item]; a mileage that is no number is stored as
\* 0, the vehicle's mileage is raised to a higher mileage entered, the config
\* of the item gets the mileage entered, and a cost above 0 is upserted as a
\* transaction of the log
AddServiceLogWithItem(v, inp) ==
    /\ v \in DOMAIN vehicles
    /\ inp.item # None
    /\ LET m  == IF inp.mileage = NaN THEN 0 ELSE inp.mileage[1]
           vd == IF m > vehicles[v].currentMileage
                 THEN updateDoc(vehicleDocs, v, [currentMileage |-> m])
                 ELSE vehicleDocs
           c1 == updateVehicleMaintLastDone(vehicleMaintenance, v, inp.item, inp.date, m)
           t1 == IF inp.cost > 0
                 THEN setDocMerge(tx, vehicleLogTxDocId(v, inp.item, inp.date),
                          MergeFields(VehicleTxData(v, inp.date, inp.cost, cutoffDay),
                                      [maintenanceItemCode |-> inp.item]))
                 ELSE tx
           r  == ensureAllVehicles(c1, nextId.vehicleMaintenance, DOMAIN vd)
       IN  /\ Fits(t1)
           /\ vehicleDocs' = vd
           /\ vehicles' = loadVehicles(vd)
           /\ vehicleMaintenance' = r.cfgs
           /\ tx' = t1
           /\ nextId' = [nextId EXCEPT !.vehicleMaintenance = r.next]
           /\ LoadMonthData(t1, currentMonthYM)
           /\ lastOp' = Ran("vehicleLog", <<v, m, inp.date, inp.item>>, None, 1,
                            vd # vehicleDocs)
    /\ UNCHANGED <<pureVars, setVars, ruleVars, debtVars, fundVars>>

MileageLogInputs ==
    [date : {<<BaseYear, 12, 5>>}, mileage : {NaN, Num(-1), Num(50000), Num(61000)},
     cost : {0, 15000}, item : {MaintItems[2]}]

NextVehMileage ==
    \/ \E inp \in VehicleInputs : AddVehicle(inp)
    \/ \E v \in DOMAIN vehicles, inp \in ServiceLogInputs : AddServiceLog(v, inp)
    \/ \E v \in DOMAIN vehicles, inp \in MileageLogInputs : AddServiceLogWithItem(v, inp)
    \/ \E v \in DOMAIN vehicles, i \in DOMAIN MaintItems, today \in TodayDates :
          QuickLog(v, MaintItems[i], 15000, today)
    \/ \E v \in DOMAIN vehicles, m \in MileageInputs : LogMileage(v, m)
    \/ \E v \in DOMAIN vehicles : DeleteVehicle(v)

SpecVehMileage == Init /\ [][NextVehMileage]_vars

\* the configs of stored vehicles that have a mileage of the last service
ServicedConfigs ==
    {c \in DOMAIN vehicleMaintenance :
        /\ vehicleMaintenance[c].vehicleId \in DOMAIN vehicleDocs
        /\ vehicleMaintenance[c].lastDoneMileage # Null}

\* C30: in every reachable state, every config of a stored vehicle with a
\* lastDoneMileage has lastDoneMileage <= the currentMileage stored for the
\* vehicle, so where the config has a mileage interval the distance from the
\* stored mileage to lastDoneMileage + intervalKm is at most intervalKm
LastDoneWithinMileage ==
    \A c \in ServicedConfigs :
        LET cfg == vehicleMaintenance[c]
            now == vehicleDocs[cfg.vehicleId].currentMileage
        IN  /\ cfg.lastDoneMileage[1] <= now
            /\ cfg.intervalKm > 0 =>
                  (cfg.lastDoneMileage[1] + cfg.intervalKm) - now <= cfg.intervalKm

\* a log of an item with a mileage above the vehicle's: the vehicle and the
\* config both have the mileage entered; and a config serviced at a mileage
\* the vehicle has since passed
LastDoneWithinMileageWitness ==
    /\ lastOp.op = "vehicleLog"
    /\ lastOp.ref[4] # None
    /\ lastOp.changed
    /\ \E c \in ServicedConfigs :
          /\ vehicleMaintenance[c].itemCode = lastOp.ref[4]
          /\ vehicleMaintenance[c].lastDoneMileage[1] = lastOp.ref[2]
          /\ vehicleDocs[vehicleMaintenance[c].vehicleId].currentMileage = lastOp.ref[2]
    /\ \E c \in ServicedConfigs :
          vehicleMaintenance[c].lastDoneMileage[1]
              < vehicleDocs[vehicleMaintenance[c].vehicleId].currentMileage

====
